---- MODULE Spec2Model ----
(***************************************************************************)
(* QiProg: the USB host driver (usb_master.c), the device-side translator  *)
(* (qiprog_usb_device.c) and the little-endian wire codec                  *)
(* (qiprog_internal.h), as one state machine.                              *)
(*                                                                         *)
(* A 32-bit quantity is the pair <<hi, lo>> of its 16-bit halves, so that  *)
(* arithmetic is exact modulo 2^32.  A chip byte is represented by the     *)
(* address it was read from: the chip contents are injective, and a byte   *)
(* delivered from the wrong address is visible as such.                    *)
(***************************************************************************)
EXTENDS Naturals, Sequences, FiniteSets

(***************************************************************************)
(* Bounds of the model.                                                    *)
(***************************************************************************)
\* Size of the bulk endpoints (libusb_get_max_packet_size; 64 on hardware).
EpIn == 3
\* Longest bulk read or write a caller asks for under Spec.
MaxLen == 4
\* Host API calls per behaviour.
MaxCalls == 3
\* Packets the device-side USB stack buffers between send_packet and the host.
MaxWire == 1
\* Completed transfers whose callback has not run yet.
MaxPendingCb == 2
\* Transport failures (failed control, bulk or submit calls) per behaviour.
MaxFaults == 1
\* Internal devices the firmware switches between.
NumDevs == 2
\* qiprog_change_device calls per behaviour.
MaxChanges == 2
\* QiProg devices qiprog_get_device_list finds, over all its calls.
MaxListed == 1

(***************************************************************************)
(* Program constants.                                                      *)
(***************************************************************************)
MAX_CONCURRENT_TRANSFERS == 32
NumTasks == 4

QIPROG_SUCCESS == "QIPROG_SUCCESS"
QIPROG_ERR == "QIPROG_ERR"
QIPROG_ERR_ARG == "QIPROG_ERR_ARG"
IDLE == "IDLE"
READY_SEND == "READY_SEND"

(***************************************************************************)
(* uint32_t arithmetic on <<hi, lo>>.                                      *)
(***************************************************************************)
Half == 65536

U32(n) == <<(n \div Half) % Half, n % Half>>

Add32(a, b) ==
    LET lo == a[2] + b[2]
    IN  <<(a[1] + b[1] + (lo \div Half)) % Half, lo % Half>>

Sub32(a, b) ==
    LET borrow == IF a[2] < b[2] THEN 1 ELSE 0
    IN  <<(a[1] + Half - b[1] - borrow) % Half, (a[2] + Half - b[2]) % Half>>

Lt32(a, b) == a[1] < b[1] \/ (a[1] = b[1] /\ a[2] < b[2])

Le32(a, b) == a = b \/ Lt32(a, b)

Top32 == <<Half - 1, Half - 1>>

Min(a, b) == IF a < b THEN a ELSE b

\* The chip byte at address a, as the internal driver maps it.
ChipByte(a) == a

\* The chip bytes at a, a+1, ..., a+n-1 (addresses modulo 2^32).
ChipBytes(a, n) == [i \in 1..n |-> ChipByte(Add32(a, U32(i - 1)))]

(***************************************************************************)
(* Wire codec (qiprog_internal.h).                                         *)
(***************************************************************************)
\* h_to_le32(uint16_t val32, void *dest): the argument is converted to the
\* parameter's type, uint16_t, before the four bytes are extracted.
h_to_le32(v) ==
    LET val32 == v[2]
    IN  << val32 % 256,
           (val32 \div 256) % 256,
           (val32 \div 65536) % 256,
           (val32 \div 16777216) % 256 >>

\* le32_to_h(void *src): b[3]<<24 | b[2]<<16 | b[1]<<8 | b[0].
le32_to_h(b) == <<b[4] * 256 + b[3], b[2] * 256 + b[1]>>

\* h_to_le16(uint16_t val16, void *dest)
h_to_le16(val16) == <<val16 % 256, (val16 \div 256) % 256>>

\* le16_to_h(void *src): b[1]<<8 | b[0].
le16_to_h(b) == b[2] * 256 + b[1]

(***************************************************************************)
(* State.                                                                  *)
(***************************************************************************)
VARIABLES
    haddr,              \* host dev->addr: start, end, pread, pwrite
    hbuf,               \* host priv->buf[0 .. priv->buflen)
    pc,                 \* where the host thread is: idle, async, left
    call,               \* the host call in progress, or the last one
    dst,                \* the caller's buffer of the bulk call
    cur,                \* locals of read/write/do_async_bulk_transfers
    subq,               \* transfers submitted to the bus, in submission order
    doneq,              \* completed transfers whose async_cb has not run
    daddr,              \* device qi_dev->addr: start, end, pread
    tasks,              \* device task_list.tasks
    task_start,         \* device task_list.task_start
    wire,               \* packets accepted by send_packet, not yet received
    calls,              \* host API calls made
    faults,             \* transport failures so far
    obs,                \* observations of the run
    qi_bulk_buf,        \* device qi_bulk_buf is not NULL
    qi_dev,             \* device qi_dev: NULL or the selected internal device
    drv,                \* the internal drivers: calls made to them
    ctl,                \* the last control request and its answer
    fw,                 \* the firmware: halted, and what it did wrong
    sentlog,            \* packets send_packet took of the selected device
                        \* since the last SET_ADDRESS
    codec,              \* a value, its bytes on the wire, the value read back
    api,                \* the last public call: its arguments and outcome
    heap,               \* the library's context and the devices it allocated
    tick                \* qiprog_handle_events when run step by step: its
                        \* position and locals

vars == <<haddr, hbuf, pc, call, dst, cur, subq, doneq, daddr, tasks,
          task_start, wire, calls, faults, obs, qi_bulk_buf, qi_dev, drv, ctl,
          fw, sentlog, codec, api, heap, tick>>

hostVars == <<haddr, hbuf, pc, call, dst, cur, subq, doneq, calls, faults>>
devVars == <<daddr, tasks, task_start>>
lifeVars == <<qi_bulk_buf, qi_dev, drv, ctl, fw>>
libVars == <<codec, api, heap, tick>>

Zero32 == U32(0)

\* A byte of the caller's buffer the library has not written.
Untouched == <<>>
\* No address.
NoAddr == <<>>

\* Bytes of the caller's buffer past the n the call was given.
DstSlack == EpIn

\* qi_max_tx_packet: the device's IN endpoint is the host's ep_size_in.
qi_max_tx_packet == EpIn

NoCall == [op |-> "none", where |-> Zero32, n |-> 0, e |-> Zero32,
           ret |-> QIPROG_SUCCESS, sa |-> FALSE, pre |-> <<>>,
           cont |-> FALSE, top |-> FALSE, bad |-> FALSE]

NoCur == [doff |-> 0, n |-> 0, total |-> 0, depth |-> 0,
          active_transfers |-> Zero32, transferred_bytes |-> Zero32]

IdleTask == [status |-> IDLE, buf |-> <<>>]

NoObs == [hs |-> NoAddr, he |-> NoAddr, ds |-> NoAddr, de |-> NoAddr,
          await |-> FALSE, first |-> NoAddr,
          chainAt |-> NoAddr, chain |-> <<>>,
          contAt |-> NoAddr, topAt |-> NoAddr,
          subm |-> {}, twice |-> FALSE,
          rxs |-> <<>>, dl |-> 0, clean |-> TRUE]

\* qi_dev before qiprog_change_device has been called.
NULL == 0

\* The internal devices of the firmware (one per bus driver).
Devs == 1..NumDevs

\* The window of a struct qiprog_device nobody has set an address on.
NoWindow == [start |-> Zero32, end |-> Zero32, pread |-> Zero32]

\* No fine-grained driver call.
NoIo == [op |-> "none", addr |-> Zero32, val |-> Zero32]

\* The internal drivers before any call: per device the dev_open and
\* dev_close calls made, the dev->addr of the devices not selected, and the
\* last read8 .. write32 call a driver received.
NoDrv == [opens |-> [d \in Devs |-> 0], closes |-> [d \in Devs |-> 0],
          addr |-> [d \in Devs |-> NoWindow], io |-> NoIo]

\* No control request.
NoCtl == [seq |-> 0, op |-> "none", width |-> 0, bRequest |-> "none",
          addr |-> Zero32,
          val |-> Zero32, ret |-> QIPROG_SUCCESS, len |-> 0, out |-> <<>>,
          hret |-> QIPROG_SUCCESS, got |-> Zero32]

\* The firmware runs, and has dereferenced no null pointer.
FwRunning == [halted |-> FALSE, nullderef |-> FALSE]

\* struct qiprog_capabilities, all zero.
NoCaps == [instruction_set |-> 0, bus_master |-> Zero32,
           max_direct_data |-> Zero32, voltages |-> [i \in 1..10 |-> 0]]

\* No public call made yet.
NoApi == [seq |-> 0, impl |-> "none", op |-> "none", dev |-> "none",
          arg |-> 0, ret |-> "none", ctrl |-> 0, len |-> 0, trap |-> FALSE,
          caps |-> NoCaps, got |-> NoCaps,
          reply |-> <<>>, ids |-> <<>>, gotids |-> <<>>, out |-> <<>>]

\* qiprog_handle_events is not running.  seen: the windows <<pread, end>>
\* qi_dev->addr held while start and end were being read.
NoTick == [pc |-> "idle", start |-> Zero32, end |-> Zero32, free |-> 0,
           seen |-> {}]

\* No context, no device allocated, no USB handle open.
NoHeap == [ctx |-> FALSE, devs |-> 0, open |-> 0, ep_size_in |-> 0,
           ep_size_out |-> 0]

\* No value encoded or decoded yet; Half stands for no 16-bit value.
NoCodec == [v16 |-> 0, v32 |-> Zero32, b16 |-> <<>>, b32 |-> <<>>,
            r16 |-> Half, r32 |-> <<>>, cmd |-> <<>>, n |-> 0,
            addr |-> <<>>, data |-> <<>>]

\* The host and the bus before the first call.
InitHost ==
    /\ haddr = [start |-> Zero32, end |-> Zero32, pread |-> Zero32,
                pwrite |-> Zero32]
    /\ hbuf = <<>>
    /\ pc = "idle"
    /\ call = NoCall
    /\ dst = <<>>
    /\ cur = NoCur
    /\ subq = <<>>
    /\ doneq = <<>>
    /\ wire = <<>>
    /\ calls = 0
    /\ faults = 0
    /\ obs = NoObs
    /\ api = NoApi
    /\ heap = NoHeap
    /\ tick = NoTick

\* The device's statics as the C initialisers leave them.
InitRing ==
    /\ daddr = NoWindow
    /\ tasks = [i \in 0..(NumTasks - 1) |-> IdleTask]
    /\ task_start = 0
    /\ ctl = NoCtl
    /\ fw = FwRunning
    /\ sentlog = <<>>

\* The system once the firmware has called qiprog_usb_dev_init and
\* qiprog_change_device on its first internal device.
Init ==
    /\ InitHost
    /\ InitRing
    /\ qi_bulk_buf = TRUE
    /\ qi_dev = 1
    /\ drv = [NoDrv EXCEPT !.opens[1] = 1]
    /\ codec = NoCodec

\* The transport fails (fault) only while the behaviour's failures last.
Faulty(fault) ==
    /\ fault => faults < MaxFaults
    /\ faults' = IF fault THEN faults + 1 ELSE faults

(***************************************************************************)
(* Device translator (qiprog_usb_device.c).                                *)
(***************************************************************************)
\* The internal driver's set_address: the window and its read cursor.
drv_set_address(start, end) == [start |-> start, end |-> end, pread |-> start]

\* The internal driver's read of n bytes at where: the bytes, and the cursor
\* advanced past them.
drv_read_bytes(where, n) == ChipBytes(where, n)
drv_read_addr(a, n) == [a EXCEPT !.pread = Add32(a.pread, U32(n))]

\* case QIPROG_SET_ADDRESS of qiprog_handle_control_request: the window the
\* 8-byte payload decodes to, handed to the driver.
HandleSetAddress(data) ==
    LET start == le32_to_h(SubSeq(data, 1, 4))
        end == le32_to_h(SubSeq(data, 5, 8))
    IN  drv_set_address(start, end)

\* Variant: with no IDLE task in the ring, its head is handed out.
get_free_task_head(ts, st) ==
    IF \E i \in 0..(NumTasks - 1) : ts[(i + st) % NumTasks].status = IDLE
    THEN LET i == CHOOSE k \in 0..(NumTasks - 1) :
                    /\ ts[(k + st) % NumTasks].status = IDLE
                    /\ \A j \in 0..(NumTasks - 1) :
                          j < k => ts[(j + st) % NumTasks].status # IDLE
         IN  (i + st) % NumTasks
    ELSE st

\* get_free_task on the ring ts with head st: the index of the first IDLE
\* task from st on, or NumTasks (NULL) if there is none.
get_free_task(ts, st) ==
    IF \E i \in 0..(NumTasks - 1) : ts[(i + st) % NumTasks].status = IDLE
    THEN LET i == CHOOSE k \in 0..(NumTasks - 1) :
                    /\ ts[(k + st) % NumTasks].status = IDLE
                    /\ \A j \in 0..(NumTasks - 1) :
                          j < k => ts[(j + st) % NumTasks].status # IDLE
         IN  (i + st) % NumTasks
    ELSE NumTasks

\* get_first_task
get_first_task == tasks[task_start]

\* handle_send hands the head task to send_packet iff it is READY_SEND.
SendsHead == get_first_task.status = READY_SEND

\* The length of the task handle_events fills: MIN(len, qi_max_tx_packet).
TaskLen(len) ==
    IF len[1] = 0 THEN Min(len[2], qi_max_tx_packet) ELSE qi_max_tx_packet

\* idle_task on the head st of the ring ts: the task is IDLE again, and the
\* head moves on.
idle_task(ts, st) == [ts EXCEPT ![st] = IdleTask]
\* Variant: idle_task leaves task_start where it is.
NextHeadStays(st) == st
\* idle_task: "task_list.task_start = (task_list.task_start + 1) & 3".
NextHead(st) == (st + 1) % NumTasks

\* Variant: the head task is cleared whatever send_packet answered.
ClearsWhatever(txd, len) == TRUE
\* handle_send: "Clear task from queue if successfully transmitted".
ClearsTask(txd, len) == txd = len

\* qiprog_handle_events: "if (start == end) return; len = end - start + 1;
\* if (len == 0) return;".
NothingToRead(start, end) ==
    start = end \/ Add32(Sub32(end, start), U32(1)) = Zero32

\* What reading qi_dev->addr through a NULL qi_dev can do: the firmware
\* traps; the two words read are equal, and handle_events returns; or they
\* differ, and a task is marked READY_SEND although qiprog_read, given no
\* device, wrote nothing into its buffer.
NullOutcomes == {"trap", "equal", "fill"}

\* The lengths MIN(len, qi_max_tx_packet) of a task filled from such words:
\* the shortest and the longest.
NullLens == {1, qi_max_tx_packet}

\* qiprog_handle_events, one tick.  accept: send_packet, if called, takes the
\* packet and answers its length; otherwise it answers 0.
qiprog_handle_events(accept) ==
    LET head == get_first_task
        \* handle_send and idle_task
        txd == IF accept THEN Len(head.buf) ELSE 0
        cleared == SendsHead /\ ClearsTask(txd, Len(head.buf))
        tasks1 == IF cleared THEN idle_task(tasks, task_start) ELSE tasks
        start1 == IF cleared THEN NextHead(task_start) ELSE task_start
        \* now see if there is anything we can read
        start == daddr.pread
        end == daddr.end
        len == Add32(Sub32(end, start), U32(1))
        free == get_free_task(tasks1, start1)
        reads == ~NothingToRead(start, end) /\ free < NumTasks
        tlen == TaskLen(len)
    IN  /\ ~fw.halted
        /\ accept => (qi_bulk_buf /\ SendsHead /\ Len(wire) < MaxWire)
        /\ IF ~qi_bulk_buf
           THEN \* "Have we been initialized properly?"
                UNCHANGED <<devVars, wire, sentlog, obs, fw>>
           ELSE /\ wire' = IF accept THEN Append(wire, head.buf) ELSE wire
                /\ sentlog' = IF accept /\ qi_dev # NULL
                              THEN Append(sentlog, head.buf) ELSE sentlog
                /\ task_start' = start1
                /\ obs' = IF SendsHead /\ obs.await
                          THEN [obs EXCEPT !.await = FALSE,
                                           !.first = head.buf[1]]
                          ELSE obs
                /\ IF qi_dev = NULL
                   THEN \E out \in NullOutcomes :
                        \E glen \in NullLens :
                          /\ fw' = [halted |-> out = "trap",
                                    nullderef |-> TRUE]
                          /\ tasks' =
                               IF out = "fill" /\ free < NumTasks
                               THEN [tasks1 EXCEPT ![free] =
                                       [status |-> READY_SEND,
                                        buf |-> [i \in 1..glen |->
                                                    Untouched]]]
                               ELSE tasks1
                          /\ daddr' = daddr
                   ELSE /\ tasks' =
                             IF reads
                             THEN [tasks1 EXCEPT ![free] =
                                     [status |-> READY_SEND,
                                      buf |-> drv_read_bytes(start, tlen)]]
                             ELSE tasks1
                        /\ daddr' = IF reads THEN drv_read_addr(daddr, tlen)
                                    ELSE daddr
                        /\ fw' = fw
        /\ UNCHANGED <<hostVars, libVars, qi_bulk_buf, qi_dev, drv, ctl>>

(***************************************************************************)
(* Host driver (usb_master.c): set_address.                                *)
(***************************************************************************)
\* The 8-byte data stage of SET_ADDRESS.
SetAddressPayload(start, end) == h_to_le32(start) \o h_to_le32(end)

\* Variant: the write pointer is left where it was.
CursorKeepingWrite(start, end) ==
    [start |-> start, end |-> end, pread |-> start, pwrite |-> haddr.pwrite]
\* dev->addr after a successful set_address.
CursorAfterSetAddress(start, end) ==
    [start |-> start, end |-> end, pread |-> start, pwrite |-> start]

\* The observations after a SET_ADDRESS(s, e) round trip that left the device
\* with window d.
ObsSetAddress(o, s, e, d) ==
    [o EXCEPT !.hs = s, !.he = e, !.ds = d.start, !.de = d.end,
              !.await = TRUE, !.first = NoAddr, !.rxs = <<>>, !.dl = 0]

\* The bytes pkt came in over bulk-in.
ObsReceive(o, pkt) == [o EXCEPT !.rxs = @ \o pkt]

\* The account of a call that returns ret: a successful read delivered its
\* n bytes; clean says that so far every call was a set_address or a read
\* and returned QIPROG_SUCCESS.
ObsAccount(o, c, ret) ==
    [o EXCEPT !.dl = IF c.op = "read" /\ ret = QIPROG_SUCCESS
                     THEN @ + c.n ELSE @,
              !.clean = @ /\ ret = QIPROG_SUCCESS
                          /\ c.op \in {"read", "set_address"}]

\* The observations when a host call returns ret with the caller's buffer d.
ObsReturn(o0, c, d, ret) ==
    LET o == ObsAccount(o0, c, ret) IN
    IF c.op = "read" /\ ret = QIPROG_SUCCESS
    THEN LET got == SubSeq(d, 1, c.n)
             joins == /\ o.chainAt # NoAddr
                      /\ c.where = Add32(o.chainAt, U32(Len(o.chain)))
         IN  [o EXCEPT !.chainAt = IF joins THEN o.chainAt ELSE c.where,
                       !.chain = IF joins THEN o.chain \o got ELSE got,
                       !.contAt = IF c.n % EpIn # 0
                                  THEN Add32(c.where, U32(c.n)) ELSE NoAddr,
                       !.topAt = NoAddr]
    ELSE [o EXCEPT !.chainAt = NoAddr, !.chain = <<>>, !.contAt = NoAddr,
                   !.topAt = IF /\ c.op = "set_address"
                                /\ ret = QIPROG_SUCCESS
                                /\ c.e = Top32
                             THEN c.where ELSE NoAddr]

\* set_address(dev, start, end), called by the application.  ok: the control
\* transfer succeeds.
set_address(start, end, ok) ==
    LET c == [NoCall EXCEPT !.op = "set_address", !.where = start, !.e = end,
                            !.sa = TRUE, !.pre = haddr,
                            !.ret = IF ok THEN QIPROG_SUCCESS ELSE QIPROG_ERR]
        d == HandleSetAddress(SetAddressPayload(start, end))
        o == IF ok THEN ObsSetAddress(obs, start, end, d) ELSE obs
    IN  /\ pc = "idle"
        /\ calls < MaxCalls
        /\ calls' = calls + 1
        /\ hbuf' = <<>>
        /\ haddr' = IF ok THEN CursorAfterSetAddress(start, end) ELSE haddr
        /\ daddr' = IF ok THEN d ELSE daddr
        /\ call' = c
        /\ obs' = ObsReturn(o, c, <<>>, c.ret)
        /\ dst' = <<>>
        /\ Faulty(~ok)
        /\ sentlog' = IF ok THEN <<>> ELSE sentlog
        /\ UNCHANGED <<pc, cur, subq, doneq, tasks, task_start, wire>>
        /\ UNCHANGED <<lifeVars, libVars>>

(***************************************************************************)
(* Host driver: bulk transfers (do_async_bulk_transfers, async_cb).        *)
(***************************************************************************)
\* A transfer on the bus: its sequential number (cb_data.transfer_number; its
\* buffer is data + transz * num), its endpoint, and whether the call that
\* submitted it is still running.
Transfer(num, off, ep) == [num |-> num, off |-> off, ep |-> ep, live |-> TRUE]

\* The transfers do_async_bulk_transfers submits first: numbers 0 .. k-1,
\* curr_buf = data + transz * i.
InitialTransfers(k, ep) ==
    [i \in 1..k |-> Transfer(i - 1, EpIn * (i - 1), ep)]

\* Variant: the resubmitted transfer takes the slice after its own.
NextBufferAdjacent(off, length, depth) == off + length
\* async_cb: transfer->buffer += transfer->length * cb_data->queue_depth.
NextBuffer(off, length, depth) == off + length * depth

\* The transfers with the numbers nums are submitted: they are recorded,
\* and so is a number submitted for the second time in this call.
ObsSubmit(o, nums) ==
    [o EXCEPT !.twice = @ \/ (nums \cap o.subm # {}),
              !.subm = @ \cup nums]

\* const uint32_t total = n / transz; depth = MIN(total, MAX_CONCURRENT...).
TotalTransfers(n) == n \div EpIn
QueueDepth(total) == Min(total, MAX_CONCURRENT_TRANSFERS)

\* Only read in multiples of the endpoint size.
AlignedRange(n) == (n \div EpIn) * EpIn

\* Index of the first transfer of q on endpoint ep, or 0.
FirstOn(q, ep) ==
    IF \E i \in 1..Len(q) : q[i].ep = ep
    THEN CHOOSE i \in 1..Len(q) :
            q[i].ep = ep /\ \A j \in 1..(i - 1) : q[j].ep # ep
    ELSE 0

Remove(q, i) == SubSeq(q, 1, i - 1) \o SubSeq(q, i + 1, Len(q))

\* The transfers a call leaves on the bus when it returns: their buffers and
\* callback data are no longer the running call's.
Orphaned(q) == [i \in 1..Len(q) |-> [q[i] EXCEPT !.live = FALSE]]

\* The caller's buffer with bytes written from offset off (0-based) on.
PutBytes(d, off, bytes) ==
    [i \in 1..Len(d) |->
        IF i > off /\ i <= off + Len(bytes) THEN bytes[i - off] ELSE d[i]]

\* A call returns: it is recorded with its result.
Return(c, o, d, ret) ==
    /\ pc' = "idle"
    /\ call' = [c EXCEPT !.ret = ret]
    /\ obs' = ObsReturn(o, c, d, ret)

(***************************************************************************)
(* Host driver: read.                                                      *)
(***************************************************************************)
\* Whether read must issue set_address first.
ReadNeedsSetAddress(where, n) ==
    haddr.pread # where \/ Lt32(haddr.end, Add32(where, U32(n)))

\* n > (range + priv->buflen), with range = end + 1 - pread in uint32_t and
\* the sum in size_t (64 bits).
TooMuch(n, end, p, buflen) ==
    LET range == Sub32(Add32(end, U32(1)), p)
    IN  range[1] = 0 /\ n > range[2] + buflen

\* The bytes of the leftover packet that go to the caller, and the length of
\* the residual kept in priv->buf.
\* Variant: the whole packet goes to the caller.
LeftCopyLenWhole(len, left) == len
LeftCopyLen(len, left) == left
\* Variant: the whole packet is kept as residual.
ResidualLenWhole(len, left) == len
ResidualLen(len, left) == len - left

\* read(dev, where, dest, n) up to its first wait.  ok: the SET_ADDRESS
\* control transfer, if issued, succeeds.  nsub: how many of the initial
\* submissions succeed.
ReadBegin(where, n, ok, nsub) ==
    LET needSA == ReadNeedsSetAddress(where, n)
        e == Add32(where, U32(n))
        d == HandleSetAddress(SetAddressPayload(where, e))
        addr1 == IF needSA /\ ok THEN CursorAfterSetAddress(where, e)
                 ELSE haddr
        buf1 == IF needSA THEN <<>> ELSE hbuf
        o1 == IF needSA /\ ok THEN ObsSetAddress(obs, where, e, d) ELSE obs
        c == [NoCall EXCEPT
                !.op = "read", !.where = where, !.n = n, !.sa = needSA,
                !.pre = haddr,
                !.cont = /\ obs.contAt = where
                         /\ n > 0
                         /\ Le32(haddr.start, where)
                         /\ Le32(where, Add32(where, U32(n - 1)))
                         /\ Le32(Add32(where, U32(n - 1)), haddr.end),
                !.top = /\ obs.topAt = where
                        /\ n > 0
                        /\ Add32(where, U32(n - 1)) = Top32]
        \* Write any leftover data from the previous read
        copysz == Min(n, Len(buf1))
        n1 == n - copysz
        buf2 == SubSeq(buf1, copysz + 1, Len(buf1))
        dst0 == [i \in 1..(n + DstSlack) |-> Untouched]
        dst1 == PutBytes(dst0, 0, SubSeq(buf1, 1, copysz))
        total == TotalTransfers(AlignedRange(n1))
        depth == QueueDepth(total)
        left == n1 % EpIn
        cur1 == [doff |-> copysz, n |-> n1, total |-> total, depth |-> depth,
                 active_transfers |-> U32(depth),
                 transferred_bytes |-> Zero32]
        stage ==
            IF needSA /\ ~ok THEN "sa_failed"
            ELSE IF TooMuch(n, addr1.end, addr1.pread, Len(buf1))
                 THEN "too_much"
            ELSE IF copysz # 0 /\ Len(buf2) > 0 THEN "drained"
            ELSE IF total = 0 /\ left = 0 THEN "nothing_left"
            ELSE IF total = 0 THEN "left"
            ELSE IF nsub < depth THEN "submit_failed"
            ELSE "async"
        copied == stage \notin {"sa_failed", "too_much"}
        dstR == IF copied THEN dst1 ELSE dst0
        oR == ObsSubmit([(IF stage = "sa_failed" THEN obs ELSE o1)
                            EXCEPT !.subm = {}, !.twice = FALSE],
                        IF stage = "async" THEN 0..(depth - 1)
                        ELSE IF stage = "submit_failed" THEN 0..(nsub - 1)
                        ELSE {})
        ret == IF stage \in {"sa_failed", "submit_failed"} THEN QIPROG_ERR
               ELSE IF stage = "too_much" THEN QIPROG_ERR_ARG
               ELSE QIPROG_SUCCESS
    IN  /\ pc = "idle"
        /\ calls < MaxCalls
        /\ calls' = calls + 1
        /\ needSA \/ ok
        /\ IF stage \in {"submit_failed", "async"}
           THEN nsub <= depth ELSE nsub = 0
        /\ haddr' = IF stage = "sa_failed" THEN haddr ELSE addr1
        /\ daddr' = IF needSA /\ ok THEN d ELSE daddr
        /\ hbuf' = IF copied THEN buf2 ELSE buf1
        /\ dst' = dstR
        /\ cur' = IF stage \in {"left", "submit_failed", "async"}
                  THEN cur1 ELSE cur
        /\ subq' = IF stage = "submit_failed"
                   THEN subq \o Orphaned(InitialTransfers(nsub, "in"))
                   ELSE IF stage = "async"
                   THEN subq \o InitialTransfers(depth, "in")
                   ELSE subq
        /\ IF stage \in {"left", "async"}
           THEN pc' = stage /\ call' = c /\ obs' = oR
           ELSE Return(c, oR, dstR, ret)
        /\ Faulty(stage \in {"sa_failed", "submit_failed"})
        /\ UNCHANGED <<tasks, task_start, wire, doneq>>
        /\ sentlog' = IF needSA /\ ok THEN <<>> ELSE sentlog
        /\ UNCHANGED <<lifeVars, libVars>>

\* The bus completes the first IN transfer with the next packet the device
\* sent: the packet is stored in the transfer's buffer, data + transz * num.
\* A transfer of a call that has returned stores into that call's buffer.
BusDeliver ==
    LET i == FirstOn(subq, "in")
        t == subq[i]
        pkt == Head(wire)
    IN  /\ i > 0
        /\ wire # <<>>
        /\ Len(doneq) < MaxPendingCb
        /\ wire' = Tail(wire)
        /\ subq' = Remove(subq, i)
        /\ doneq' = Append(doneq, [num |-> t.num, off |-> t.off, ep |-> t.ep,
                                   live |-> t.live, ok |-> TRUE,
                                   actual |-> Len(pkt)])
        /\ dst' = IF t.live
                  THEN PutBytes(dst, cur.doff + t.off, pkt)
                  ELSE dst
        /\ obs' = ObsReceive(obs, pkt)
        /\ UNCHANGED <<haddr, hbuf, pc, call, cur, daddr, tasks, task_start,
                       calls, faults>>
        /\ UNCHANGED <<lifeVars, sentlog, libVars>>

\* The bus completes the first OUT transfer: the packet was sent.
BusAccept ==
    LET i == FirstOn(subq, "out")
        t == subq[i]
    IN  /\ i > 0
        /\ Len(doneq) < MaxPendingCb
        /\ subq' = Remove(subq, i)
        /\ doneq' = Append(doneq, [num |-> t.num, off |-> t.off, ep |-> t.ep,
                                   live |-> t.live, ok |-> TRUE,
                                   actual |-> EpIn])
        /\ UNCHANGED <<haddr, hbuf, pc, call, dst, cur, daddr, tasks,
                       task_start, wire, calls, faults, obs>>
        /\ UNCHANGED <<lifeVars, sentlog, libVars>>

\* A transfer fails (times out, stalls): status is not COMPLETED, no data.
TransferFail(ep) ==
    LET i == FirstOn(subq, ep)
        t == subq[i]
    IN  /\ i > 0
        /\ Len(doneq) < MaxPendingCb
        /\ subq' = Remove(subq, i)
        /\ doneq' = Append(doneq, [num |-> t.num, off |-> t.off, ep |-> t.ep,
                                   live |-> t.live, ok |-> FALSE,
                                   actual |-> 0])
        /\ Faulty(TRUE)
        /\ UNCHANGED <<haddr, hbuf, pc, call, dst, cur, daddr, tasks,
                       task_start, wire, calls, obs>>
        /\ UNCHANGED <<lifeVars, sentlog, libVars>>

\* The counters after async_cb of transfer t, which resubmits or not.
CountersAfterCb(c, t, resubmitted) ==
    [c EXCEPT !.transferred_bytes =
                    Add32(c.transferred_bytes, U32(t.actual)),
              !.active_transfers =
                    IF resubmitted THEN c.active_transfers
                    ELSE Sub32(c.active_transfers, U32(1))]

\* async_cb of the i-th completed transfer, run by libusb_handle_events.
\* rs: libusb_submit_transfer succeeds if the callback resubmits.  touch: the
\* callback of a transfer whose call has returned reads and writes that call's
\* dead locals; it either lands on the running call's counters or on nothing.
AsyncCb(i, rs, touch) ==
    LET t == doneq[i]
        next == t.num + cur.depth
        good == t.ok /\ t.actual = EpIn
        wants == next < cur.total /\ good
    IN  /\ i \in 1..Len(doneq)
        /\ pc \in {"async", "left"}
        /\ doneq' = Remove(doneq, i)
        /\ IF t.live
           THEN /\ touch
                /\ wants \/ rs
                /\ cur' = CountersAfterCb(cur, t, wants /\ rs)
                /\ subq' = IF wants /\ rs
                           THEN Append(subq,
                                       Transfer(next,
                                                NextBuffer(t.off, EpIn,
                                                           cur.depth),
                                                t.ep))
                           ELSE subq
           ELSE /\ rs
                /\ cur' = IF touch /\ pc = "async"
                          THEN CountersAfterCb(cur, t, FALSE)
                          ELSE cur
                /\ subq' = subq
        /\ call' = [call EXCEPT !.bad = @ \/ (t.live /\ ~good)]
        /\ obs' = IF t.live /\ wants /\ rs THEN ObsSubmit(obs, {next})
                  ELSE obs
        /\ Faulty(t.live /\ wants /\ ~rs)
        /\ UNCHANGED <<haddr, hbuf, pc, dst, daddr, tasks, task_start,
                       wire, calls>>
        /\ UNCHANGED <<lifeVars, sentlog, libVars>>

\* Variant: a read leaves the read pointer where it was.
AdvanceCursorWriteOnly(a, op, k) ==
    IF op = "read" THEN a
    ELSE [a EXCEPT !.pwrite = Add32(a.pwrite, U32(k))]
\* The cursor after the aligned range went through.
AdvanceCursor(a, op, k) ==
    IF op = "read" THEN [a EXCEPT !.pread = Add32(a.pread, U32(k))]
    ELSE [a EXCEPT !.pwrite = Add32(a.pwrite, U32(k))]

\* do_async_bulk_transfers leaves its loop (active_transfers is 0) and
\* read/write go on to the leftover packet.
AsyncFinish ==
    LET range == EpIn * cur.total
        good == cur.transferred_bytes = U32(range)
        left == cur.n % EpIn
    IN  /\ pc = "async"
        /\ cur.active_transfers = Zero32
        /\ haddr' = IF good THEN AdvanceCursor(haddr, call.op, range)
                    ELSE haddr
        /\ IF good /\ left # 0
           THEN /\ pc' = "left"
                /\ UNCHANGED <<call, obs, subq, doneq>>
           ELSE /\ Return(call, obs, dst,
                          IF good THEN QIPROG_SUCCESS ELSE QIPROG_ERR)
                /\ subq' = Orphaned(subq)
                /\ doneq' = Orphaned(doneq)
        /\ UNCHANGED <<hbuf, dst, cur, daddr, tasks, task_start, wire,
                       calls, faults>>
        /\ UNCHANGED <<lifeVars, sentlog, libVars>>

\* libusb_handle_events fails inside the loop: do_async_bulk_transfers
\* returns with its transfers still submitted.
HandleEventsFail ==
    /\ pc = "async"
    /\ cur.active_transfers # Zero32
    /\ Return(call, obs, dst, QIPROG_ERR)
    /\ subq' = Orphaned(subq)
    /\ doneq' = Orphaned(doneq)
    /\ Faulty(TRUE)
    /\ UNCHANGED <<haddr, hbuf, dst, cur, daddr, tasks, task_start, wire,
                   calls>>
    /\ UNCHANGED <<lifeVars, sentlog, libVars>>

\* read's leftover packet: libusb_bulk_transfer of ep_size_in bytes into
\* priv->buf receives the next packet.
LeftRecv ==
    LET pkt == Head(wire)
        len == Len(pkt)
        left == cur.n % EpIn
        buflen == ResidualLen(len, left)
        good == len >= left
        dst1 == PutBytes(dst, cur.doff + cur.n - left,
                         SubSeq(pkt, 1, LeftCopyLen(len, left)))
    IN  /\ pc = "left"
        /\ call.op = "read"
        /\ FirstOn(subq, "in") = 0
        /\ wire # <<>>
        /\ wire' = Tail(wire)
        /\ haddr' = IF good THEN AdvanceCursor(haddr, "read", len) ELSE haddr
        /\ dst' = IF good THEN dst1 ELSE dst
        /\ hbuf' = IF good
                   THEN [i \in 1..buflen |->
                            IF left + i <= len THEN pkt[left + i]
                            ELSE Untouched]
                   ELSE hbuf
        /\ Return(call, ObsReceive(obs, pkt), dst',
                  IF good THEN QIPROG_SUCCESS ELSE QIPROG_ERR)
        /\ subq' = Orphaned(subq)
        /\ doneq' = Orphaned(doneq)
        /\ UNCHANGED <<cur, daddr, tasks, task_start, calls, faults>>
        /\ UNCHANGED <<lifeVars, sentlog, libVars>>

\* write's leftover packet: libusb_bulk_transfer of left bytes is sent.
LeftSend ==
    LET left == cur.n % EpIn
    IN  /\ pc = "left"
        /\ call.op = "write"
        /\ FirstOn(subq, "out") = 0
        /\ haddr' = AdvanceCursor(haddr, "write", left)
        /\ Return(call, obs, dst, QIPROG_SUCCESS)
        /\ subq' = Orphaned(subq)
        /\ doneq' = Orphaned(doneq)
        /\ UNCHANGED <<hbuf, dst, cur, daddr, tasks, task_start, wire, calls,
                       faults>>
        /\ UNCHANGED <<lifeVars, sentlog, libVars>>

\* The leftover libusb_bulk_transfer fails.
LeftFail ==
    /\ pc = "left"
    /\ Return(call, obs, dst, QIPROG_ERR)
    /\ subq' = Orphaned(subq)
    /\ doneq' = Orphaned(doneq)
    /\ Faulty(TRUE)
    /\ UNCHANGED <<haddr, hbuf, dst, cur, daddr, tasks, task_start, wire,
                   calls>>
    /\ UNCHANGED <<lifeVars, sentlog, libVars>>

(***************************************************************************)
(* Host driver: write.                                                     *)
(***************************************************************************)
WriteNeedsSetAddress(where, n) ==
    haddr.pwrite # where \/ Lt32(haddr.end, Add32(where, U32(n)))

\* write(dev, where, src, n) up to its first wait.
WriteBegin(where, n, ok, nsub) ==
    LET needSA == WriteNeedsSetAddress(where, n)
        e == Add32(where, U32(n))
        d == HandleSetAddress(SetAddressPayload(where, e))
        addr1 == IF needSA /\ ok THEN CursorAfterSetAddress(where, e)
                 ELSE haddr
        o1 == IF needSA /\ ok THEN ObsSetAddress(obs, where, e, d) ELSE obs
        c == [NoCall EXCEPT !.op = "write", !.where = where, !.n = n,
                            !.sa = needSA, !.pre = haddr]
        total == TotalTransfers(AlignedRange(n))
        depth == QueueDepth(total)
        left == n % EpIn
        cur1 == [doff |-> 0, n |-> n, total |-> total, depth |-> depth,
                 active_transfers |-> U32(depth),
                 transferred_bytes |-> Zero32]
        stage ==
            IF needSA /\ ~ok THEN "sa_failed"
            ELSE IF TooMuch(n, addr1.end, addr1.pwrite, 0) THEN "too_much"
            ELSE IF total = 0 /\ left = 0 THEN "nothing_left"
            ELSE IF total = 0 THEN "left"
            ELSE IF nsub < depth THEN "submit_failed"
            ELSE "async"
        oR == ObsSubmit([(IF stage = "sa_failed" THEN obs ELSE o1)
                            EXCEPT !.subm = {}, !.twice = FALSE],
                        IF stage = "async" THEN 0..(depth - 1)
                        ELSE IF stage = "submit_failed" THEN 0..(nsub - 1)
                        ELSE {})
        ret == IF stage \in {"sa_failed", "submit_failed"} THEN QIPROG_ERR
               ELSE IF stage = "too_much" THEN QIPROG_ERR_ARG
               ELSE QIPROG_SUCCESS
    IN  /\ pc = "idle"
        /\ calls < MaxCalls
        /\ calls' = calls + 1
        /\ needSA \/ ok
        /\ IF stage \in {"submit_failed", "async"}
           THEN nsub <= depth ELSE nsub = 0
        /\ haddr' = IF stage = "sa_failed" THEN haddr ELSE addr1
        /\ daddr' = IF needSA /\ ok THEN d ELSE daddr
        /\ hbuf' = IF needSA THEN <<>> ELSE hbuf
        /\ dst' = <<>>
        /\ cur' = IF stage \in {"left", "submit_failed", "async"}
                  THEN cur1 ELSE cur
        /\ subq' = IF stage = "submit_failed"
                   THEN subq \o Orphaned(InitialTransfers(nsub, "out"))
                   ELSE IF stage = "async"
                   THEN subq \o InitialTransfers(depth, "out")
                   ELSE subq
        /\ IF stage \in {"left", "async"}
           THEN pc' = stage /\ call' = c /\ obs' = oR
           ELSE Return(c, oR, <<>>, ret)
        /\ Faulty(stage \in {"sa_failed", "submit_failed"})
        /\ UNCHANGED <<tasks, task_start, wire, doneq>>
        /\ sentlog' = IF needSA /\ ok THEN <<>> ELSE sentlog
        /\ UNCHANGED <<lifeVars, libVars>>

(***************************************************************************)
(* The system.                                                             *)
(***************************************************************************)
\* Base addresses the application uses: the bottom of the address space, and
\* the last EpIn + 1 bytes below its top.
\* The address from which one packet reaches the top of the address space.
TopBase == Sub32(Top32, U32(EpIn - 1))

\* Where a caller reads: at the bottom of the chip, on from the last byte it
\* was given, or at the driver's read pointer.
WhereSet ==
    {Zero32, haddr.pread}
        \cup (IF obs.contAt = NoAddr THEN {} ELSE {obs.contAt})

\* The lengths a caller reads and writes: nothing, less than a packet, one
\* packet, a packet and a tail.
ReadLens == {0, 1, EpIn, MaxLen}
WriteLens == {0, 1, MaxLen}

\* The windows the application sets: the bottom of the chip, and the last
\* packet of the address space.
MidEnd == U32(2 * MaxLen)
Windows == {<<Zero32, MidEnd>>, <<TopBase, Top32>>}

MaxDepth == MaxLen \div EpIn

HostCall ==
    \/ \E w \in Windows : \E ok \in BOOLEAN :
          set_address(w[1], w[2], ok)
    \/ \E w \in WhereSet : \E n \in ReadLens : \E ok \in BOOLEAN :
          \E nsub \in 0..MaxDepth : ReadBegin(w, n, ok, nsub)
    \/ \E w \in {Zero32} : \E n \in WriteLens : \E ok \in BOOLEAN :
          \E nsub \in 0..MaxDepth : WriteBegin(w, n, ok, nsub)

Device == \E accept \in BOOLEAN : qiprog_handle_events(accept)

Bus ==
    \/ BusDeliver
    \/ BusAccept
    \/ \E ep \in {"in", "out"} : TransferFail(ep)

HostStep ==
    \/ \E i \in 1..MaxPendingCb : \E rs, touch \in BOOLEAN :
          AsyncCb(i, rs, touch)
    \/ AsyncFinish
    \/ HandleEventsFail
    \/ LeftRecv
    \/ LeftSend
    \/ LeftFail

Next == HostCall \/ Device \/ Bus \/ HostStep

Spec == Init /\ [][Next]_vars

(***************************************************************************)
(* Properties.                                                             *)
(***************************************************************************)
\* A read call has returned to its caller.
ReadReturned == pc = "idle" /\ call.op = "read"

\* The first n bytes of the caller's buffer.
Delivered == SubSeq(dst, 1, call.n)

\* C1: consecutive successful reads, each starting where the one before
\* ended, together give the chip bytes of the range they cover: the
\* concatenation of their buffers is the chip content from the first read's
\* address on, however the range is split.
C1_SplitReadsGiveChipBytes ==
    obs.chainAt # NoAddr =>
        obs.chain = ChipBytes(obs.chainAt, Len(obs.chain))

\* C3: a read of n bytes writes only the first n bytes of the caller's
\* buffer: at every moment of the call and after it, whether it succeeds or
\* fails, every byte at index n or beyond is as the caller left it.
C3_ReadWritesOnlyFirstN ==
    call.op = "read" =>
        \A i \in (call.n + 1)..Len(dst) : dst[i] = Untouched

\* A read whose length is not a multiple of the packet size succeeded after
\* taking bytes from the residual and from a leftover packet that was longer
\* than what the caller still needed.
C3_Witness ==
    /\ ReadReturned
    /\ call.ret = QIPROG_SUCCESS
    /\ call.n % EpIn # 0
    /\ cur.doff > 0
    /\ cur.n % EpIn # 0
    /\ hbuf # <<>>
    /\ \A i \in 1..call.n : dst[i] # Untouched

\* C4: a read that asks for the byte right after the last one a successful
\* read of a length not a multiple of the packet size delivered, inside the
\* window and with no call in between, issues no SET_ADDRESS and delivers the
\* chip bytes from that address on.
C4_ContinuationWithoutSetAddress ==
    (call.op = "read" /\ call.cont) =>
        /\ ~call.sa
        /\ (ReadReturned /\ call.ret = QIPROG_SUCCESS) =>
              Delivered = ChipBytes(call.where, call.n)

\* C5: the first packet the device hands to send_packet after it handled
\* SET_ADDRESS(s, e) starts with the chip byte at s.
C5_FirstPacketStartsAtS ==
    obs.first # NoAddr => obs.first = ChipByte(obs.ds)

\* C6: a set_address(s, e) that succeeds leaves start = pread = pwrite = s,
\* end = e and no residual; one whose control transfer fails leaves start,
\* end, pread and pwrite as they were.
C6_SetAddressCursor ==
    (pc = "idle" /\ call.op = "set_address") =>
        IF call.ret = QIPROG_SUCCESS
        THEN /\ haddr = [start |-> call.where, end |-> call.e,
                         pread |-> call.where, pwrite |-> call.where]
             /\ hbuf = <<>>
        ELSE haddr = call.pre

\* A set_address succeeded from a state whose read and write pointers had
\* both moved off the new start.
C6_Witness ==
    /\ pc = "idle"
    /\ call.op = "set_address"
    /\ call.ret = QIPROG_SUCCESS
    /\ call.pre.pread # call.where
    /\ call.pre.pwrite # call.where
    /\ call.pre.pread # call.pre.pwrite

\* C7: the window the device translator hands to its driver's set_address is
\* the (start, end) the host's set_address was called with: the 8-byte
\* payload survives the wire unchanged for every 32-bit start and end.
C7_SetAddressRoundTrip ==
    obs.hs # NoAddr => (obs.ds = obs.hs /\ obs.de = obs.he)

\* C8: after set_address(where, 0xFFFFFFFF), a read at where whose last byte
\* is the byte at 0xFFFFFFFF is not rejected as too large, issues no
\* SET_ADDRESS of its own, and delivers the chip bytes from where on.
C8_ReadUpToTop ==
    (ReadReturned /\ call.top) =>
        /\ call.ret # QIPROG_ERR_ARG
        /\ ~call.sa
        /\ call.ret = QIPROG_SUCCESS =>
              Delivered = ChipBytes(call.where, call.n)

\* start <= p <= end + 1 for a pointer p of the host's cursor; end + 1 is
\* taken in 32 bits, so a pointer just past a window that ends at 0xFFFFFFFF
\* is 0.
InsideWindow(p) ==
    \/ p = Add32(haddr.end, U32(1))
    \/ Le32(haddr.start, p) /\ Le32(p, haddr.end)

\* C9: in every state the host's cursor satisfies start <= pread <= end + 1
\* and start <= pwrite <= end + 1.
C9_CursorInsideWindow ==
    InsideWindow(haddr.pread) /\ InsideWindow(haddr.pwrite)

\* C10: the residual is always shorter than one packet, and while a read has
\* a bulk-in transfer under way, or is about to receive its leftover packet,
\* no residual byte is waiting to be copied.
C10_ResidualShortAndDrained ==
    /\ Len(hbuf) < EpIn
    /\ (call.op = "read" /\ pc \in {"async", "left"}) => hbuf = <<>>

\* A read took the whole residual of the read before it and went on to the
\* bus for the rest.
C10_Witness ==
    /\ call.op = "read"
    /\ pc \in {"async", "left"}
    /\ ~call.sa
    /\ cur.doff > 0
    /\ hbuf = <<>>

(***************************************************************************)
(* One long read: more packets than MAX_CONCURRENT_TRANSFERS, so that      *)
(* async_cb resubmits.  The transport does not fail.                       *)
(***************************************************************************)
BulkLen == (MAX_CONCURRENT_TRANSFERS + 2) * EpIn

BulkRead ==
    /\ calls = 0
    /\ ReadBegin(Zero32, BulkLen, TRUE, MAX_CONCURRENT_TRANSFERS)

BulkCb == \E i \in 1..MaxPendingCb : AsyncCb(i, TRUE, TRUE)

NextBulk == BulkRead \/ Device \/ BusDeliver \/ BulkCb \/ AsyncFinish

SpecBulk == Init /\ [][NextBulk]_vars

\* C2: when a read returns QIPROG_SUCCESS, whatever the order in which the
\* callbacks of its transfers ran, the k-th packet-sized slice of the caller's
\* buffer holds the k-th packet the device sent.  The ring is empty when the
\* read sets its window, so the k-th packet is the chip bytes from the
\* window's start + k * ep_in on.
C2_SlicesInPacketOrder ==
    (ReadReturned /\ call.ret = QIPROG_SUCCESS) =>
        \A k \in 0..(TotalTransfers(call.n) - 1) :
            SubSeq(dst, k * EpIn + 1, (k + 1) * EpIn)
                = ChipBytes(Add32(obs.ds, U32(k * EpIn)), EpIn)

(***************************************************************************)
(* The device's task ring.                                                 *)
(***************************************************************************)
\* In this step send_packet took a packet: the log of taken packets grew.
Accepted == Len(sentlog') = Len(sentlog) + 1

\* The packet send_packet took in this step.
AcceptedPacket == sentlog'[Len(sentlog')]

\* One step of the ring, as the ring's contract wants it.
RingStep ==
    /\ Accepted =>
          /\ tasks[task_start].status = READY_SEND
          /\ AcceptedPacket = tasks[task_start].buf
          /\ task_start' = NextHead(task_start)
          /\ \/ tasks'[task_start].status = IDLE
             \/ \A j \in 0..(NumTasks - 1) : tasks'[j].status = READY_SEND
    /\ ~Accepted => task_start' = task_start
    /\ \A i \in 0..(NumTasks - 1) :
          (tasks[i].status = READY_SEND /\ tasks'[i] # tasks[i]) =>
              (Accepted /\ i = task_start)

\* C11: send_packet is never given an IDLE task, and a READY_SEND task is
\* transmitted exactly once: it stays READY_SEND, unchanged and at the head,
\* while send_packet answers 0; in the very step send_packet takes it the
\* head moves past it and it is IDLE (or, the ring having no other free
\* task, filled anew in the same tick); and the head moves in no other step,
\* so that the task is not handed to the transport again.
C11_TaskSentExactlyOnce == [][RingStep]_vars

\* Two packets have been taken and the head has moved past both tasks, the
\* second of which is IDLE again.
C11_Witness ==
    /\ Len(sentlog) = 2
    /\ task_start = 2
    /\ tasks[1].status = IDLE

\* The bytes of the packets ps, in order.
RECURSIVE Flatten(_)
Flatten(ps) == IF ps = <<>> THEN <<>> ELSE Head(ps) \o Flatten(Tail(ps))

\* C12: the packets send_packet has taken since the device handled the last
\* SET_ADDRESS, in the order it took them, are contiguous pieces of the chip
\* in increasing address order starting at the window's start: together they
\* are the chip bytes from start on.
C12_PacketsInAddressOrder ==
    Flatten(sentlog) = ChipBytes(daddr.start, Len(Flatten(sentlog)))

(***************************************************************************)
(* Control requests (qiprog_handle_control_request) and the host's         *)
(* fine-grained I/O (usb_master.c read8 .. write32).  A value of any width *)
(* is kept as <<hi, lo>>.                                                  *)
(***************************************************************************)
\* bRequest codes qiprog_handle_control_request has a case for that only
\* says "Not Handled", codes of the enumeration it has no case for, and a
\* code the enumeration does not assign.
NotHandled ==
    {"QIPROG_SET_CLOCK", "QIPROG_SET_ERASE_SIZE", "QIPROG_SET_ERASE_COMMAND",
     "QIPROG_SET_WRITE_COMMAND", "QIPROG_SET_CHIP_SIZE",
     "QIPROG_SET_SPI_TIMING", "QIPROG_SET_VDD", "0xff"}

Widths == {8, 16, 32}

ReadRequest(N) ==
    CASE N = 8 -> "QIPROG_READ8" [] N = 16 -> "QIPROG_READ16"
      [] N = 32 -> "QIPROG_READ32"

WriteRequest(N) ==
    CASE N = 8 -> "QIPROG_WRITE8" [] N = 16 -> "QIPROG_WRITE16"
      [] N = 32 -> "QIPROG_WRITE32"

\* The data stage the host's writeN sends for the value v: &data, h_to_le16,
\* h_to_le32.
HostEncode(N, v) ==
    CASE N = 8 -> <<v[2] % 256>>
      [] N = 16 -> h_to_le16(v[2])
      [] N = 32 -> h_to_le32(v)

\* The value the host's readN returns for the data stage buf: the byte,
\* le16_to_h, le32_to_h.
HostDecode(N, buf) ==
    CASE N = 8 -> <<0, buf[1]>>
      [] N = 16 -> <<0, le16_to_h(buf)>>
      [] N = 32 -> le32_to_h(buf)

\* The value the device hands to the driver's writeN: (*data)[0], le16_to_h,
\* le32_to_h.
DevDecode(N, data) ==
    CASE N = 8 -> <<0, data[1]>>
      [] N = 16 -> <<0, le16_to_h(data)>>
      [] N = 32 -> le32_to_h(data)

\* ctrl_buf after the driver's readN stored v through (void *)ctrl_buf: the
\* bytes of v as the device's little-endian CPU keeps them.
CtrlBuf(N, v) ==
    CASE N = 8 -> <<v[2] % 256>>
      [] N = 16 -> <<v[2] % 256, v[2] \div 256>>
      [] N = 32 -> <<v[2] % 256, v[2] \div 256, v[1] % 256, v[1] \div 256>>

\* Variant: a request that is not handled is acknowledged.
AckUnhandled == [ret |-> QIPROG_SUCCESS, len |-> 0, out |-> <<>>, io |-> drv.io]
\* qiprog_handle_control_request: "ret = QIPROG_ERR; *len = 0;", which is the
\* answer of every case that does nothing and of the default.
Unhandled == [ret |-> QIPROG_ERR, len |-> 0, out |-> <<>>, io |-> drv.io]

\* qiprog_handle_control_request for the fine-grained requests and the ones
\* not handled: the answer (ret, *len, *data) and the driver call made.  rv is
\* the value the driver's readN produces, dret what the driver returns.
\* qiprog_readN and qiprog_writeN return QIPROG_ERR_ARG without calling a
\* driver when qi_dev is NULL.
qiprog_handle_control_request(bRequest, wValue, wIndex, data, rv, dret) ==
    LET addr == <<wValue, wIndex>>
        ret == IF qi_dev = NULL THEN QIPROG_ERR_ARG ELSE dret
        isRead(N) == bRequest = ReadRequest(N)
        isWrite(N) == bRequest = WriteRequest(N)
    IN  IF \E N \in Widths : isRead(N)
        THEN LET N == CHOOSE N \in Widths : isRead(N)
             IN  [ret |-> ret, len |-> N \div 8,
                  out |-> IF ret = QIPROG_SUCCESS THEN CtrlBuf(N, rv)
                          ELSE <<>>,
                  io |-> IF qi_dev = NULL THEN drv.io
                         ELSE [op |-> bRequest, addr |-> addr, val |-> rv]]
        ELSE IF \E N \in Widths : isWrite(N)
        THEN LET N == CHOOSE N \in Widths : isWrite(N)
             IN  [ret |-> ret, len |-> 0, out |-> <<>>,
                  io |-> IF qi_dev = NULL THEN drv.io
                         ELSE [op |-> bRequest, addr |-> addr,
                               val |-> DevDecode(N, data)]]
        ELSE Unhandled

\* The host's writeN(dev, addr, v): wValue = addr >> 16, wIndex = addr &
\* 0xffff, one control transfer; QIPROG_ERR if the device stalls.
HostWrite(N, addr, v, dret) ==
    LET a == qiprog_handle_control_request(WriteRequest(N), addr[1], addr[2],
                                           HostEncode(N, v), Zero32, dret)
    IN  /\ ~fw.halted
        /\ pc = "idle"
        /\ calls < MaxCalls
        /\ calls' = calls + 1
        /\ drv' = [drv EXCEPT !.io = a.io]
        /\ ctl' = [seq |-> calls + 1, op |-> "write", width |-> N, bRequest |-> WriteRequest(N),
                   addr |-> addr, val |-> v, ret |-> a.ret, len |-> a.len,
                   out |-> a.out,
                   hret |-> IF a.ret = QIPROG_SUCCESS THEN QIPROG_SUCCESS
                            ELSE QIPROG_ERR,
                   got |-> Zero32]
        /\ UNCHANGED <<libVars, haddr, hbuf, pc, call, dst, cur, subq, doneq,
                     faults,
                       obs, devVars, wire, sentlog, qi_bulk_buf, qi_dev, fw>>

\* The host's readN(dev, addr, &data): one control transfer, the data stage
\* decoded into *data.
HostRead(N, addr, rv, dret) ==
    LET a == qiprog_handle_control_request(ReadRequest(N), addr[1], addr[2],
                                           <<>>, rv, dret)
    IN  /\ ~fw.halted
        /\ pc = "idle"
        /\ calls < MaxCalls
        /\ calls' = calls + 1
        /\ drv' = [drv EXCEPT !.io = a.io]
        /\ ctl' = [seq |-> calls + 1, op |-> "read", width |-> N, bRequest |-> ReadRequest(N),
                   addr |-> addr, val |-> Zero32, ret |-> a.ret,
                   len |-> a.len, out |-> a.out,
                   hret |-> IF a.ret = QIPROG_SUCCESS THEN QIPROG_SUCCESS
                            ELSE QIPROG_ERR,
                   got |-> IF a.ret = QIPROG_SUCCESS
                           THEN HostDecode(N, a.out) ELSE Zero32]
        /\ UNCHANGED <<libVars, haddr, hbuf, pc, call, dst, cur, subq, doneq,
                     faults,
                       obs, devVars, wire, sentlog, qi_bulk_buf, qi_dev, fw>>

\* A vendor request with any other bRequest reaches the device.
RawControl(bRequest) ==
    LET a == qiprog_handle_control_request(bRequest, 0, 0, <<>>, Zero32,
                                           QIPROG_SUCCESS)
    IN  /\ ~fw.halted
        /\ pc = "idle"
        /\ calls < MaxCalls
        /\ calls' = calls + 1
        /\ drv' = [drv EXCEPT !.io = a.io]
        /\ ctl' = [NoCtl EXCEPT !.seq = calls + 1, !.op = "raw",
                                !.bRequest = bRequest,
                                !.ret = a.ret, !.len = a.len, !.out = a.out,
                                !.hret = IF a.ret = QIPROG_SUCCESS
                                         THEN QIPROG_SUCCESS ELSE QIPROG_ERR]
        /\ UNCHANGED <<libVars, haddr, hbuf, pc, call, dst, cur, subq, doneq,
                     faults,
                       obs, devVars, wire, sentlog, qi_bulk_buf, qi_dev, fw>>

(***************************************************************************)
(* The firmware's life cycle: qiprog_usb_dev_init, qiprog_change_device.   *)
(***************************************************************************)
\* qiprog_usb_dev_init with valid arguments: the callbacks, the packet sizes
\* and the bulk buffer are recorded.
qiprog_usb_dev_init ==
    /\ ~fw.halted
    /\ ~qi_bulk_buf
    /\ qi_bulk_buf' = TRUE
    /\ UNCHANGED <<libVars, hostVars, devVars, wire, obs, sentlog, qi_dev,
                 drv, ctl,
                   fw>>

\* dev_open calls made so far on the devices 1 .. n.
RECURSIVE Opens(_, _)
Opens(o, n) == IF n = 0 THEN 0 ELSE o[n] + Opens(o, n - 1)

\* qiprog_change_device(new_dev): "FIXME: close old driver"; qi_dev =
\* new_dev; qi_dev->drv->dev_open(qi_dev).  The window and cursor the
\* translator works on from now on are new_dev's.
qiprog_change_device(new_dev) ==
    /\ ~fw.halted
    /\ Opens(drv.opens, NumDevs) < MaxChanges
    /\ qi_dev' = new_dev
    /\ drv' = [drv EXCEPT
                 !.opens[new_dev] = @ + 1,
                 !.addr = IF qi_dev = NULL THEN @
                          ELSE [@ EXCEPT ![qi_dev] = daddr]]
    /\ daddr' = IF qi_dev = new_dev THEN daddr ELSE drv.addr[new_dev]
    /\ UNCHANGED <<libVars, hostVars, tasks, task_start, wire, obs, sentlog,
                   qi_bulk_buf, ctl, fw>>

\* The device's USB controller hands the oldest packet it holds to the host.
UsbIn ==
    /\ wire # <<>>
    /\ wire' = Tail(wire)
    /\ UNCHANGED <<hostVars, devVars, obs, sentlog, lifeVars, libVars>>

(***************************************************************************)
(* The device on its own: the firmware's calls, and the host's control     *)
(* requests.                                                               *)
(***************************************************************************)
\* The addresses and values of the fine-grained I/O test (tests.c).
IoAddrs == {<<65468, 0>>, <<65535, 65520>>}
IoVals(N) ==
    CASE N = 8 -> {<<0, 219>>}
      [] N = 16 -> {<<0, 53425>>}
      [] N = 32 -> {<<192, 65518>>, <<0, 238>>}

\* Windows for the device on its own: one byte; one packet and one byte; one
\* packet and two bytes.
DevWindows == {<<Zero32, Zero32>>, <<Zero32, U32(EpIn)>>,
               <<Zero32, U32(EpIn + 1)>>}

InitDev ==
    /\ InitHost
    /\ InitRing
    /\ qi_bulk_buf = FALSE
    /\ qi_dev = NULL
    /\ drv = NoDrv
    /\ codec = NoCodec

\* SET_ADDRESS, which the host sends once a device is selected.
DevSetAddress(W) ==
    \E w \in W :
        ~fw.halted /\ qi_dev # NULL /\ set_address(w[1], w[2], TRUE)

DevIo ==
    \/ \E N \in Widths : \E a \in IoAddrs : \E v \in IoVals(N) :
       \E dret \in {QIPROG_SUCCESS, QIPROG_ERR} : HostWrite(N, a, v, dret)
    \/ \E N \in Widths : \E a \in IoAddrs : \E rv \in IoVals(N) :
       \E dret \in {QIPROG_SUCCESS, QIPROG_ERR} : HostRead(N, a, rv, dret)
    \/ \E b \in NotHandled : RawControl(b)

Firmware ==
    \/ qiprog_usb_dev_init
    \/ \E d \in Devs : qiprog_change_device(d)

\* The firmware from power-on, and a host that reads one window.
NextDev ==
    Firmware \/ DevSetAddress({<<Zero32, U32(EpIn + 1)>>}) \/ Device \/ UsbIn

SpecDev == InitDev /\ [][NextDev]_vars

\* The selected device serving control requests while it streams.
NextCtl == DevSetAddress(DevWindows) \/ DevIo \/ Device \/ UsbIn

SpecCtl == Init /\ [][NextCtl]_vars

(***************************************************************************)
(* The selected device streaming a window, under the scheduling C13        *)
(* assumes: qiprog_handle_events is called again and again, send_packet    *)
(* takes a packet infinitely often, and the bus drains what it took.       *)
(***************************************************************************)
NextLive == DevSetAddress(DevWindows) \/ Device \/ UsbIn

SpecLive ==
    /\ Init
    /\ [][NextLive]_vars
    /\ WF_vars(Device)
    /\ SF_vars(qiprog_handle_events(TRUE))
    /\ WF_vars(UsbIn)

\* The device has handled a SET_ADDRESS.
SetAddressHandled == obs.ds # NoAddr

\* Every chip byte of the device's window [start, end] is in a packet
\* send_packet took since the window was set.
WindowSent ==
    LET n == Sub32(daddr.end, daddr.start)[2] + 1
        got == Flatten(sentlog)
    IN  \A i \in 1..n :
            \E k \in 1..Len(got) :
                got[k] = ChipByte(Add32(daddr.start, U32(i - 1)))

\* C13: once the device has handled SET_ADDRESS(s, e), every byte of [s, e]
\* is eventually handed to send_packet and taken, whatever remains to be
\* read: a whole packet, a single last byte, or a window of one byte.
C13_WindowEventuallySent == SetAddressHandled ~> WindowSent

(***************************************************************************)
(* Bulk calls: what they leave behind, and what they answer.               *)
(***************************************************************************)
\* C14: whenever do_async_bulk_transfers is not running (it has returned,
\* with success or with an error, or has not been called), no transfer is
\* in flight: none is submitted and waiting for the bus, none is completed
\* and waiting for its callback.
C14_NoTransferInFlightAfterReturn ==
    pc # "async" => (subq = <<>> /\ doneq = <<>>)

\* A bulk call has returned one of whose own transfers completed with a
\* status other than COMPLETED, or with fewer bytes than its length.
BadTransferReturned ==
    pc = "idle" /\ call.op \in {"read", "write"} /\ call.bad

\* C15: a bulk call one of whose transfers failed or came back short returns
\* an error, and leaves the read or write pointer where it was when the
\* transfers began (at where), not advanced by the aligned range.
C15_BadTransferFailsCall ==
    BadTransferReturned =>
        /\ call.ret # QIPROG_SUCCESS
        /\ call.op = "read" => haddr.pread = call.where
        /\ call.op = "write" => haddr.pwrite = call.where

\* C16: a write of no bytes is a no-op: when write(dev, where, src, 0) has
\* returned, no SET_ADDRESS was sent and the host's window and pointers
\* (start, end, pread, pwrite) are as they were before the call, whatever
\* where is.
C16_EmptyWriteIsNoOp ==
    (pc = "idle" /\ call.op = "write" /\ call.n = 0) =>
        (~call.sa /\ haddr = call.pre)

(***************************************************************************)
(* The firmware's life cycle.                                              *)
(***************************************************************************)
\* C17: qiprog_change_device closes the device selected before, once, before
\* it opens the new one: every dev_open of a device but its last is matched
\* by a dev_close, and at most one internal device is open at any time.
C17_OldClosedBeforeNewOpened ==
    /\ \A d \in Devs : drv.opens[d] <= drv.closes[d] + 1
    /\ Cardinality({d \in Devs : drv.opens[d] > drv.closes[d]}) <= 1

\* C18: qiprog_handle_events never reads through a NULL qi_dev: neither
\* before qiprog_usb_dev_init, nor after it while no device is selected.
C18_HandleEventsNeverDerefsNull == ~fw.nullderef

(***************************************************************************)
(* Control requests.                                                       *)
(***************************************************************************)
\* In this step the device answers a control request that is not handled.
AnswersUnhandled == ctl' # ctl /\ ctl'.bRequest \in NotHandled

\* C19: a control request whose bRequest is not handled or not known is
\* answered with an error and *len = 0, and the step that answers it calls
\* no driver operation and leaves the address cursor and the task ring as
\* they are.
C19_UnhandledRequestRejected ==
    [][AnswersUnhandled =>
          /\ ctl'.ret # QIPROG_SUCCESS
          /\ ctl'.len = 0
          /\ drv' = drv
          /\ daddr' = daddr
          /\ tasks' = tasks
          /\ task_start' = task_start]_vars

\* A request the enumeration names but the handler has no case for was
\* answered while a driver had been called before, the cursor was inside its
\* window and a task was waiting to be sent.
C19_Witness ==
    /\ ctl.bRequest = "QIPROG_SET_CHIP_SIZE"
    /\ ctl.ret = QIPROG_ERR
    /\ drv.io.op = "QIPROG_WRITE16"
    /\ daddr.pread # daddr.start
    /\ tasks[task_start].status = READY_SEND

\* C20: fine-grained I/O end to end.  After the host's writeN(addr, v) the
\* driver's writeN has been called with exactly (addr, v) and the answer has
\* *len = 0; after a successful readN(addr) the driver's readN has been
\* called with addr and the host returns exactly the value the driver
\* produced.
C20_FineIoEndToEnd ==
    /\ ctl.op = "write" =>
          /\ drv.io = [op |-> ctl.bRequest, addr |-> ctl.addr,
                       val |-> ctl.val]
          /\ ctl.len = 0
    /\ (ctl.op = "read" /\ ctl.ret = QIPROG_SUCCESS) =>
          /\ drv.io.op = ctl.bRequest
          /\ drv.io.addr = ctl.addr
          /\ ctl.got = drv.io.val
          /\ ctl.hret = QIPROG_SUCCESS

(***************************************************************************)
(* The wire codec on its own: a 16-bit and a 32-bit value are written to   *)
(* a byte stream and read back.                                            *)
(***************************************************************************)
V16 == {0, 1, 255, 256, 48879, 65535}
V32 == {Zero32, <<0, 1>>, <<0, 65535>>, <<1, 0>>, <<57005, 48879>>, Top32}

InitCodec ==
    /\ InitHost
    /\ InitRing
    /\ qi_bulk_buf = TRUE
    /\ qi_dev = 1
    /\ drv = [NoDrv EXCEPT !.opens[1] = 1]
    /\ \E a \in V16 : \E b \in V32 :
           codec = [NoCodec EXCEPT !.v16 = a, !.v32 = b]

CodecPut16 ==
    /\ codec' = [codec EXCEPT !.b16 = h_to_le16(codec.v16)]
    /\ UNCHANGED <<hostVars, devVars, wire, obs, sentlog, lifeVars, api, heap,
                   tick>>

CodecGet16 ==
    /\ codec.b16 # <<>>
    /\ codec' = [codec EXCEPT !.r16 = le16_to_h(codec.b16)]
    /\ UNCHANGED <<hostVars, devVars, wire, obs, sentlog, lifeVars, api, heap,
                   tick>>

CodecPut32 ==
    /\ codec' = [codec EXCEPT !.b32 = h_to_le32(codec.v32)]
    /\ UNCHANGED <<hostVars, devVars, wire, obs, sentlog, lifeVars, api, heap,
                   tick>>

CodecGet32 ==
    /\ codec.b32 # <<>>
    /\ codec' = [codec EXCEPT !.r32 = le32_to_h(codec.b32)]
    /\ UNCHANGED <<hostVars, devVars, wire, obs, sentlog, lifeVars, api, heap,
                   tick>>

NextCodec == CodecPut16 \/ CodecGet16 \/ CodecPut32 \/ CodecGet32

SpecCodec == InitCodec /\ [][NextCodec]_vars

\* The bytes of a 32-bit value, least significant first.
LsbFirst32(v) == <<v[2] % 256, v[2] \div 256, v[1] % 256, v[1] \div 256>>

\* C21: h_to_le16 and h_to_le32 store the value least significant byte
\* first in 2 and 4 bytes, and le16_to_h and le32_to_h read back the value
\* that was stored, for every 16-bit and every 32-bit value.
C21_CodecRoundTrip ==
    /\ codec.b16 # <<>> => codec.b16 = <<codec.v16 % 256, codec.v16 \div 256>>
    /\ codec.r16 # Half => codec.r16 = codec.v16
    /\ codec.b32 # <<>> => codec.b32 = LsbFirst32(codec.v32)
    /\ codec.r32 # <<>> => codec.r32 = codec.v32

(***************************************************************************)
(* The public API (core.c, libqiprog.c) over the USB host driver           *)
(* (usb_master.c).                                                         *)
(***************************************************************************)
\* The device handles a caller can pass: NULL, a device whose drv is NULL,
\* a device of the USB host driver whose priv is NULL, and a device that
\* qiprog_get_device_list returned.
DevHandles == {"NULL", "no drv", "no priv", "valid"}

\* qiprog_usb_master_drv: the members the USB host driver fills in.
qiprog_usb_master_drv ==
    {"dev_open", "set_bus", "get_capabilities", "read_chip_id",
     "set_chip_size", "set_erase_size", "set_erase_command",
     "set_custom_erase_command", "set_write_command",
     "set_custom_write_command", "read8", "read16", "read32", "write8",
     "write16", "write32", "read", "write"}

\* The operations core.c exports, by the driver member each dispatches to.
PublicOps == qiprog_usb_master_drv \cup {"set_clock", "set_spi_timing", "set_vdd"}

\* The chip I/O operations; on a valid device they are the actions HostRead,
\* HostWrite, ReadBegin and WriteBegin.
IoOps == {"read8", "read16", "read32", "write8", "write16", "write32",
          "read", "write"}

\* The operations that take an element count.
CountedOps == {"set_erase_size", "set_custom_erase_command",
               "set_custom_write_command"}

\* The files that define a public operation: core.c defines them all,
\* libqiprog.c defines qiprog_open_device and qiprog_get_capabilities again.
Impls(op) ==
    IF op \in {"dev_open", "get_capabilities"} THEN {"core.c", "libqiprog.c"}
    ELSE {"core.c"}

QIPROG_ERR_LARGE_ARG == "QIPROG_ERR_LARGE_ARG"

\* QIPROG_RETURN_ON_BAD_DEV(dev) returns.
QIPROG_RETURN_ON_BAD_DEV(dev) == dev = "NULL" \/ dev = "no drv"

\* What a step with undefined behaviour may do: stop the process, leave the
\* callee's value in place, or yield a value of its own.
UbOutcomes == {"trap", "leftover", QIPROG_SUCCESS}

\* GET_CAPABILITIES on the device: the fields stored into the static
\* ctrl_buf, of which 0x20 bytes are the data stage.
PackCapabilities(caps, ctrl_buf) ==
    LET b0 == PutBytes(ctrl_buf, 0, h_to_le16(caps.instruction_set))
        b2 == PutBytes(b0, 2, h_to_le32(caps.bus_master))
        b4 == PutBytes(b2, 4, h_to_le32(caps.max_direct_data))
        v == [i \in 1..Len(b4) |->
                 IF i > 10 /\ i <= 30
                 THEN h_to_le16(caps.voltages[((i - 11) \div 2) + 1])
                          [((i - 11) % 2) + 1]
                 ELSE b4[i]]
    IN  SubSeq(v, 1, 32)

\* get_capabilities on the host: the fields read from the data stage.
UnpackCapabilities(buf) ==
    [instruction_set |-> le16_to_h(SubSeq(buf, 1, 2)),
     bus_master |-> le32_to_h(SubSeq(buf, 3, 6)),
     max_direct_data |-> le32_to_h(SubSeq(buf, 7, 10)),
     voltages |-> [i \in 1..10 |-> le16_to_h(SubSeq(buf, 9 + 2 * i, 10 + 2 * i))]]

\* READ_DEVICE_ID on the device: nine entries of 7 bytes stored into
\* ctrl_buf, of which 0x3f bytes are the data stage.
PackChipIds(ids) ==
    [k \in 1..63 |->
        LET i == (k - 1) \div 7
            entry == <<ids[i].id_method>> \o h_to_le16(ids[i].vendor_id)
                         \o h_to_le32(ids[i].device_id)
        IN  entry[((k - 1) % 7) + 1]]

\* read_chip_id on the host: entry i is read from buf + 7 * i.
UnpackChipIds(buf) ==
    [i \in 0..8 |->
        [id_method |-> buf[7 * i + 1],
         vendor_id |-> le16_to_h(SubSeq(buf, 7 * i + 2, 7 * i + 3)),
         device_id |-> le32_to_h(SubSeq(buf, 7 * i + 4, 7 * i + 7))]]

\* The length of the data stage of the control transfer an operation issues.
PayloadLen(op, arg) ==
    CASE op = "get_capabilities" -> 32
      [] op = "read_chip_id" -> 63 * 9
      [] op \in {"set_chip_size", "set_erase_command", "set_write_command"} -> 4
      [] op = "set_erase_size" -> arg * 5
      [] op \in {"set_custom_erase_command", "set_custom_write_command"} ->
             4 + arg * 5
      [] OTHER -> 0

\* Variant: thirteen elements are let through.
CountFitsThirteen(arg) == arg <= 13
\* "We can only fit 12 erase sizes in a control packet": num_sizes > 12 and
\* num_bytes > 12 are refused.
CountFits(arg) == arg <= 12

\* A member of qiprog_usb_master_drv called on dev: what it returns, the
\* control transfers it issues and the length of their data stage.  ok: the
\* transport (libusb_open for dev_open) succeeds.
UsbMasterEntry(op, dev, arg, ok) ==
    LET Returns(r) == [ret |-> r, ctrl |-> 0, len |-> 0, trap |-> FALSE]
        done == IF ok THEN QIPROG_SUCCESS ELSE QIPROG_ERR
    IN  IF dev = "no priv" THEN Returns(QIPROG_ERR_ARG)
        ELSE IF op = "set_bus" /\ arg = 0 THEN Returns(QIPROG_ERR_ARG)
        ELSE IF op \in CountedOps /\ arg = 0 THEN Returns(QIPROG_ERR_ARG)
        ELSE IF op \in CountedOps /\ ~CountFits(arg)
        THEN Returns(QIPROG_ERR_LARGE_ARG)
        ELSE IF op = "dev_open" THEN Returns(done)
        ELSE [ret |-> done, ctrl |-> 1, len |-> PayloadLen(op, arg),
              trap |-> FALSE]

\* A public operation qiprog_<op>(dev, ...) as impl defines it.  core.c
\* checks dev and dev->drv and calls the driver's member, which is a null
\* pointer if the driver does not fill it in; libqiprog.c makes the call
\* without a check and has no return statement.
PublicOutcome(impl, op, dev, arg, ok, ub) ==
    LET Returns(r) == [ret |-> r, ctrl |-> 0, len |-> 0, trap |-> FALSE]
        Undefined == IF ub = "trap"
                     THEN [ret |-> "none", ctrl |-> 0, len |-> 0,
                           trap |-> TRUE]
                     ELSE Returns(QIPROG_SUCCESS)
        e == UsbMasterEntry(op, dev, arg, ok)
    IN  IF impl = "core.c"
        THEN IF QIPROG_RETURN_ON_BAD_DEV(dev) THEN Returns(QIPROG_ERR_ARG)
             ELSE IF op \notin qiprog_usb_master_drv THEN Undefined
             ELSE e
        ELSE IF QIPROG_RETURN_ON_BAD_DEV(dev) THEN Undefined
             ELSE IF ub = "leftover" THEN e
             ELSE [e EXCEPT !.ret = QIPROG_SUCCESS]

\* The outcomes of the undefined step of a call: a null pointer used stops
\* the process or yields a value, a missing return statement leaves the
\* callee's value or yields another; a call without such a step has one
\* outcome.
UbOf(impl, op, dev) ==
    IF impl = "core.c"
    THEN IF ~QIPROG_RETURN_ON_BAD_DEV(dev) /\ op \notin qiprog_usb_master_drv
         THEN UbOutcomes \ {"leftover"} ELSE {"leftover"}
    ELSE IF QIPROG_RETURN_ON_BAD_DEV(dev) THEN UbOutcomes \ {"leftover"}
         ELSE UbOutcomes \ {"trap"}

\* The caller calls qiprog_<op>(dev, ...).  caps is what the device's
\* internal driver reports and ctrl_buf what the device's static buffer held.
PublicCall(impl, op, dev, arg, ok, ub, caps, ids, ctrl_buf) ==
    LET a == PublicOutcome(impl, op, dev, arg, ok, ub)
        answered == op = "get_capabilities" /\ a.ctrl = 1 /\ ok
        identified == op = "read_chip_id" /\ a.ctrl = 1 /\ ok
    IN  /\ ~api.trap
        /\ ~fw.halted
        /\ pc = "idle"
        /\ calls < MaxCalls
        /\ dev = "valid" => (heap.devs > 0 /\ op \notin IoOps)
        /\ calls' = calls + 1
        /\ api' = [seq |-> calls + 1, impl |-> impl, op |-> op, dev |-> dev,
                   arg |-> arg, ret |-> a.ret, ctrl |-> a.ctrl,
                   len |-> a.len, trap |-> a.trap, caps |-> caps,
                   got |-> IF answered
                           THEN UnpackCapabilities(
                                    PackCapabilities(caps, ctrl_buf))
                           ELSE NoCaps,
                   reply |-> IF answered
                             THEN PackCapabilities(caps, ctrl_buf)
                             ELSE <<>>,
                   ids |-> ids,
                   gotids |-> IF identified
                              THEN UnpackChipIds(PackChipIds(ids))
                              ELSE <<>>,
                   out |-> <<>>]
        /\ heap' = IF op = "dev_open" /\ dev = "valid" /\ ~a.trap /\ ok
                   THEN [heap EXCEPT !.open = @ + 1] ELSE heap
        /\ UNCHANGED <<haddr, hbuf, pc, call, dst, cur, subq, doneq, faults,
                       devVars, wire, obs, sentlog, lifeVars, codec, tick>>

\* qiprog_init(&ctx): the context is allocated and libusb initialised, or
\* QIPROG_ERR_MALLOC is returned and *ctx stays 0.
qiprog_init(ok) ==
    /\ ~api.trap
    /\ ~heap.ctx
    /\ heap' = [heap EXCEPT !.ctx = ok]
    /\ api' = [NoApi EXCEPT !.seq = calls, !.op = "init",
                            !.ret = IF ok THEN QIPROG_SUCCESS
                                    ELSE "QIPROG_ERR_MALLOC"]
    /\ UNCHANGED <<hostVars, devVars, wire, obs, sentlog, lifeVars, codec, tick>>

\* qiprog_get_device_list(ctx, &list) with n QiProg devices attached: scan
\* allocates a qiprog_device and its private state for each.
qiprog_get_device_list(n) ==
    /\ ~api.trap
    /\ heap.ctx
    /\ heap.devs + n <= MaxListed
    /\ heap' = [heap EXCEPT !.devs = @ + n]
    /\ api' = [NoApi EXCEPT !.seq = calls, !.op = "get_device_list",
                            !.arg = n, !.ret = QIPROG_SUCCESS]
    /\ UNCHANGED <<hostVars, devVars, wire, obs, sentlog, lifeVars, codec, tick>>

\* qiprog_exit(ctx): QIPROG_ERR_ARG for a null ctx; otherwise libusb_exit
\* and free(ctx), and nothing else.
qiprog_exit(ctx) ==
    /\ ~api.trap
    /\ ctx # NULL => heap.ctx
    /\ heap' = IF ctx = NULL THEN heap ELSE [heap EXCEPT !.ctx = FALSE]
    /\ api' = [NoApi EXCEPT !.seq = calls, !.op = "exit", !.arg = ctx,
                            !.ret = IF ctx = NULL THEN QIPROG_ERR_ARG
                                    ELSE QIPROG_SUCCESS]
    /\ UNCHANGED <<hostVars, devVars, wire, obs, sentlog, lifeVars, codec, tick>>

(***************************************************************************)
(* A caller of the library: it sets the library up, lists the devices,     *)
(* calls operations with good and bad arguments, and tears the library     *)
(* down.                                                                   *)
(***************************************************************************)
\* bus for set_bus, the element count for the counted operations.
Args(op) ==
    IF op = "set_bus" THEN {0, 1}
    ELSE IF op \in CountedOps THEN {0, 1, 12, 13}
    ELSE {0}

\* What an internal driver may report as its capabilities.
CapsSet ==
    [instruction_set : {258},
     bus_master : {<<0, 4>>, <<1, 2>>},
     max_direct_data : {Zero32, <<0, 512>>},
     voltages : {[i \in 1..10 |-> 0],
                 [i \in 1..10 |-> IF i = 1 THEN 3300
                                  ELSE IF i = 2 THEN 1800 ELSE 0]}]

\* ctrl_buf as the C initialiser leaves it, and as READ_DEVICE_ID leaves it
\* when the second chip's vendor_id is 0x00ef.
CtrlBufs ==
    {[i \in 1..64 |-> 0], [i \in 1..64 |-> IF i = 9 THEN 239 ELSE 0]}

\* What an internal driver may report as the chips it identified: none, or
\* a second entry with vendor 0x00ef and a device id above 16 bits.
ChipIdSet ==
    {[i \in 0..8 |-> [id_method |-> 0, vendor_id |-> 0, device_id |-> Zero32]],
     [i \in 0..8 |-> IF i = 1
                     THEN [id_method |-> 1, vendor_id |-> 239,
                           device_id |-> <<1, 16406>>]
                     ELSE [id_method |-> 0, vendor_id |-> 0,
                           device_id |-> Zero32]]}

Library ==
    \/ \E ok \in BOOLEAN : qiprog_init(ok)
    \/ \E n \in 0..MaxListed : qiprog_get_device_list(n)
    \/ \E ctx \in {NULL, 1} : qiprog_exit(ctx)

Caller ==
    \E op \in PublicOps : \E impl \in Impls(op) : \E dev \in DevHandles :
    \E arg \in Args(op) : \E ub \in UbOf(impl, op, dev) :
    \E ok \in IF dev = "valid" THEN BOOLEAN ELSE {TRUE} :
    \E caps \in IF op = "get_capabilities" /\ dev = "valid"
                THEN CapsSet ELSE {NoCaps} :
    \E ids \in IF op = "read_chip_id" /\ dev = "valid"
               THEN ChipIdSet ELSE {<<>>} :
    \E ctrl_buf \in IF op = "get_capabilities" /\ dev = "valid"
                    THEN CtrlBufs ELSE {<<>>} :
        PublicCall(impl, op, dev, arg, ok, ub, caps, ids, ctrl_buf)

NextApi == Library \/ Caller \/ DevSetAddress({<<Zero32, U32(EpIn)>>})

SpecApi == Init /\ [][NextApi]_vars

\* C22: the capabilities the host's get_capabilities unpacks are the ones
\* the device's internal driver reported, field by field.
C22_CapabilitiesRoundTrip ==
    (api.op = "get_capabilities" /\ api.impl = "core.c" /\ api.ctrl = 1
         /\ api.ret = QIPROG_SUCCESS)
        => api.got = api.caps

\* A public call made with an argument C23 names: a null device, a device
\* whose drv is null, a member of the host driver on a device whose priv is
\* null, or set_bus with bus = 0.
BadArgCall ==
    /\ api'.seq > api.seq
    /\ \/ api'.dev \in {"NULL", "no drv"}
       \/ api'.dev = "no priv" /\ api'.op \in qiprog_usb_master_drv
       \/ api'.op = "set_bus" /\ api'.arg = 0

\* C23: a public call with a null device, a null driver table, a null
\* private state or set_bus(0) returns QIPROG_ERR_ARG, issues no control or
\* bulk transfer and leaves the cursor and the residual unchanged.
C23_BadArgFailsFast ==
    [][BadArgCall =>
         /\ api'.ret = QIPROG_ERR_ARG
         /\ ~api'.trap
         /\ api'.ctrl = 0
         /\ subq' = subq /\ wire' = wire
         /\ haddr' = haddr /\ hbuf' = hbuf]_vars

\* The errors that say an argument is wrong.
ArgumentErrors == {QIPROG_ERR_ARG, QIPROG_ERR_LARGE_ARG}

\* C24: on a device with private state, set_erase_size,
\* set_custom_erase_command and set_custom_write_command return an argument
\* error and issue no control transfer when the element count is 0 or more
\* than 12; for a count n in 1..12 they issue one control transfer whose
\* data stage fits 64 bytes, and is 5n bytes for set_erase_size.
C24_ElementCountChecked ==
    (api.op \in CountedOps /\ api.impl = "core.c" /\ api.dev = "valid") =>
        IF api.arg = 0 \/ api.arg > 12
        THEN api.ret \in ArgumentErrors /\ api.ctrl = 0
        ELSE /\ api.ctrl = 1
             /\ api.len <= 64
             /\ api.op = "set_erase_size" => api.len = 5 * api.arg

C24_Witness ==
    /\ api.op = "set_custom_erase_command" /\ api.dev = "valid"
    /\ api.arg = 12 /\ api.ctrl = 1 /\ api.len = 64
    /\ api.ret = QIPROG_SUCCESS

\* The error values of qiprog_err.
ErrorValues ==
    {QIPROG_ERR, "QIPROG_ERR_MALLOC", QIPROG_ERR_ARG, "QIPROG_ERR_TIMEOUT",
     "QIPROG_ERR_CHIP_TIMEOUT", "QIPROG_ERR_NO_RESPONSE"}

\* C25: a public operation called on a valid device whose driver does not
\* implement it returns an error value; the missing member is not invoked
\* and the call does not succeed.
C25_UnsupportedOperationFails ==
    (api.impl = "core.c" /\ api.dev = "valid"
         /\ api.op \in PublicOps \ qiprog_usb_master_drv)
        => (~api.trap /\ api.ret \in ErrorValues)

\* C26: after qiprog_exit(ctx) returned QIPROG_SUCCESS no device of the
\* context is still allocated or open, and qiprog_exit(NULL) returns
\* QIPROG_ERR_ARG.
C26_ExitReleasesDevices ==
    api.op = "exit" =>
        IF api.arg = NULL THEN api.ret = QIPROG_ERR_ARG
        ELSE api.ret = QIPROG_SUCCESS => (heap.devs = 0 /\ heap.open = 0)

\* A step in which the host's read(where, dst, n) is called with n > 0.
ReadCalled == calls' = calls + 1 /\ call'.op = "read" /\ call'.n > 0

\* C27: read(where, dst, n) issues SET_ADDRESS if and only if pread # where
\* or end < where + n - 1, and a SET_ADDRESS it issues leaves
\* end = where + n - 1.
C27_SetAddressIffNeeded ==
    [][ReadCalled =>
         LET last == Add32(call'.where, U32(call'.n - 1))
         IN  /\ call'.sa <=> (haddr.pread # call'.where
                                  \/ Lt32(haddr.end, last))
             /\ (call'.sa /\ haddr' # haddr) => haddr'.end = last]_vars

\* The transfers of the running call that are submitted or completed.
InFlight ==
    LET q == subq \o [i \in 1..Len(doneq) |->
                         [num |-> doneq[i].num, off |-> doneq[i].off,
                          ep |-> doneq[i].ep, live |-> doneq[i].live]]
    IN  {q[i] : i \in {j \in 1..Len(q) : q[j].live}}

\* C28: in a fan-out of total = n \div ep transfers without a failure, no
\* number is submitted twice and none is total or more; transfer k has the
\* slice [k * ep, (k + 1) * ep) of the caller's data, inside its n bytes;
\* two transfers in flight have disjoint slices; and when the fan-out is
\* over every number 0 .. total - 1 has been submitted.
C28_FanOutSlices ==
    (pc = "async" /\ faults = 0 /\ ~call.bad) =>
        /\ ~obs.twice
        /\ \A k \in obs.subm : k < cur.total
        /\ \A t \in InFlight :
              t.off = t.num * EpIn /\ t.off + EpIn <= cur.n
        /\ \A t, u \in InFlight :
              t # u => (t.off + EpIn <= u.off \/ u.off + EpIn <= t.off)
        /\ cur.active_transfers = Zero32 =>
              obs.subm = 0..(cur.total - 1)

C28_Witness ==
    /\ pc = "async" /\ faults = 0 /\ ~call.bad
    /\ cur.total = MAX_CONCURRENT_TRANSFERS + 2
    /\ cur.active_transfers = Zero32
    /\ obs.subm = 0..(cur.total - 1)

(***************************************************************************)
(* The read of SpecBulk on a bus where one transfer may fail.              *)
(***************************************************************************)
NextBulkFail == NextBulk \/ TransferFail("in")

SpecBulkFail == Init /\ [][NextBulkFail]_vars

\* C29: once the callback of a transfer of the running bulk call has seen a
\* failure (a status that is not COMPLETED, or a short length), no transfer
\* of that call is submitted any more.
C29_NoSubmitAfterFailure ==
    [][(pc = "async" /\ call.bad) =>
           (obs'.subm = obs.subm /\ Len(subq') <= Len(subq))]_vars

(***************************************************************************)
(* Backpressure of the device's task ring.                                 *)
(***************************************************************************)
\* After handle_send, in a tick whose send_packet answers as accept says,
\* no task of the ring is IDLE.
FullAfterSend(accept) ==
    LET head == get_first_task
        txd == IF accept THEN Len(head.buf) ELSE 0
        cleared == SendsHead /\ ClearsTask(txd, Len(head.buf))
    IN  /\ ~cleared
        /\ \A i \in 0..(NumTasks - 1) : tasks[i].status = READY_SEND

\* This step is a tick of an initialized device with a full ring.
FullTick ==
    \E accept \in BOOLEAN :
        qi_bulk_buf /\ FullAfterSend(accept) /\ qiprog_handle_events(accept)

\* C30: backpressure.  A tick of qiprog_handle_events after whose send
\* attempt all four tasks are READY_SEND reads nothing from the internal
\* driver: the read cursor pread, the head of the ring and every task's
\* status, length and buffer are as they were.
C30_Backpressure ==
    [][FullTick => /\ daddr' = daddr
                   /\ tasks' = tasks
                   /\ task_start' = task_start]_vars

\* The ring is full while the window still holds bytes to read: the tick
\* taken here finds no free task.
C30_Witness ==
    /\ qi_bulk_buf
    /\ qi_dev # NULL
    /\ \A i \in 0..(NumTasks - 1) : tasks[i].status = READY_SEND
    /\ ~NothingToRead(daddr.pread, daddr.end)
    /\ ~fw.halted

(***************************************************************************)
(* The scratch buffer behind the device's control replies.                 *)
(***************************************************************************)
\* ctrl_buf as the C initialiser of a static array leaves it.
ZeroCtrlBuf == [i \in 1..64 |-> 0]

\* C31: the 32 bytes the device answers to GET_CAPABILITIES are a function
\* of the capabilities its driver reported alone: whatever earlier requests
\* left in the shared scratch buffer, the reply is the one packed into an
\* all-zero buffer, so that every byte no field covers is zero.
C31_ReplyFromCapsAlone ==
    api.reply # <<>> => api.reply = PackCapabilities(api.caps, ZeroCtrlBuf)

(***************************************************************************)
(* read_chip_id.                                                           *)
(***************************************************************************)
\* read_chip_id: "uint8_t buf[64]", the buffer the control transfer fills.
ReadChipIdBufLen == 64

\* C32: read_chip_id issues one control IN transfer whose requested length
\* is 63 bytes, nine entries of 7 bytes, and so no more than its 64-byte
\* buffer holds; and the nine entries it decodes are the ones the device
\* packed.
C32_ReadChipIdTransfer ==
    (api.op = "read_chip_id" /\ api.ctrl = 1) =>
        /\ api.len = 63
        /\ api.len <= ReadChipIdBufLen
        /\ api.ret = QIPROG_SUCCESS => api.gotids = api.ids

(***************************************************************************)
(* Host driver (usb_master.c): the payload of set_custom_erase_command and *)
(* set_custom_write_command.                                               *)
(***************************************************************************)
\* Element counts, the upper halves of the addresses, and what every byte
\* of the uninitialized "uint8_t buf[64]" may hold.
CmdCounts == {1, 2, 12}
CmdHighs == {0, 170}
StackBytes == {0, 204}
CmdKinds == {"ERASE", "WRITE"}

\* The arrays a caller passes: data[i] = 0x90 + i, addr[i] = hi:(0x0555 + i).
CmdData(n) == [i \in 0..(n - 1) |-> 144 + i]
CmdAddr(n, hi) == [i \in 0..(n - 1) |-> <<hi, 1365 + i>>]

\* "for (i = 0; i < num_bytes; i++) { buf[4 + i*5] = data[i];
\* h_to_le32(addr[i], buf + 4 + i*5); }", from entry i on.
RECURSIVE FillEntries(_, _, _, _, _)
FillEntries(buf, i, n, addr, data) ==
    IF i >= n THEN buf
    ELSE LET b1 == PutBytes(buf, 4 + i * 5, <<data[i]>>)
             b2 == PutBytes(b1, 4 + i * 5, h_to_le32(addr[i]))
         IN  FillEntries(b2, i + 1, n, addr, data)

\* The 4 + 5n bytes handed to libusb_control_transfer.
CustomPayload(kind, n, addr, data, stack) ==
    LET b0 == [k \in 1..64 |-> stack]
        b2 == PutBytes(b0, 0, <<"QIPROG_" \o kind \o "_CMD_CUSTOM",
                                "QIPROG_" \o kind \o "_SUBCMD_CUSTOM">>)
        b4 == PutBytes(b2, 2, h_to_le16(0))
    IN  SubSeq(FillEntries(b4, 0, n, addr, data), 1, PayloadLen(
            "set_custom_erase_command", n))

\* set_custom_erase_command / set_custom_write_command build their payload.
CustomCommand(kind, n, hi, stack) ==
    /\ codec.cmd = <<>>
    /\ codec' = [codec EXCEPT
                   !.cmd = CustomPayload(kind, n, CmdAddr(n, hi), CmdData(n),
                                         stack),
                   !.n = n, !.addr = CmdAddr(n, hi), !.data = CmdData(n)]
    /\ UNCHANGED <<hostVars, devVars, wire, obs, sentlog, lifeVars, api, heap,
                   tick>>

NextCmd ==
    \E kind \in CmdKinds : \E n \in CmdCounts : \E hi \in CmdHighs :
    \E stack \in StackBytes : CustomCommand(kind, n, hi, stack)

SpecCmd == InitCodec /\ [][NextCmd]_vars

\* Entry i of the payload p holds data[i] and addr[i] in 5 bytes of its own,
\* the data byte before or after the address.
EntryRecoverable(p, i, addr, data) ==
    LET e == SubSeq(p, 5 + 5 * i, 9 + 5 * i)
    IN  \/ e[1] = data[i] /\ SubSeq(e, 2, 5) = LsbFirst32(addr[i])
        \/ e[5] = data[i] /\ SubSeq(e, 1, 4) = LsbFirst32(addr[i])

\* C33: the payload of a custom erase or write command of n elements is
\* 4 + 5n bytes, at most 64, and every entry i has 5 bytes of its own that
\* hold both data[i] and the 32-bit addr[i]: no data byte is overwritten by
\* an address byte and no byte of the payload is left unwritten.
C33_CustomPayloadEntries ==
    codec.cmd # <<>> =>
        /\ Len(codec.cmd) = 4 + 5 * codec.n
        /\ Len(codec.cmd) <= 64
        /\ \A i \in 0..(codec.n - 1) :
              EntryRecoverable(codec.cmd, i, codec.addr, codec.data)

(***************************************************************************)
(* qiprog_handle_events run step by step, with SET_ADDRESS control         *)
(* requests handled between any two of its steps ("The event handler is    *)
(* not safely re-entrant if interrupted by a control request").            *)
(***************************************************************************)
\* The window qi_dev->addr holds now, as handle_events reads it.
WindowNow == <<daddr.pread, daddr.end>>

\* handle_send.
TickSend(accept) ==
    LET head == get_first_task
        txd == IF accept THEN Len(head.buf) ELSE 0
        cleared == SendsHead /\ ClearsTask(txd, Len(head.buf))
    IN  /\ tick.pc = "idle"
        /\ ~fw.halted /\ qi_bulk_buf /\ qi_dev # NULL
        /\ accept => (SendsHead /\ Len(wire) < MaxWire)
        /\ wire' = IF accept THEN Append(wire, head.buf) ELSE wire
        /\ sentlog' = IF accept THEN Append(sentlog, head.buf) ELSE sentlog
        /\ tasks' = IF cleared THEN idle_task(tasks, task_start) ELSE tasks
        /\ task_start' = IF cleared THEN NextHead(task_start) ELSE task_start
        /\ obs' = IF SendsHead /\ obs.await
                  THEN [obs EXCEPT !.await = FALSE, !.first = head.buf[1]]
                  ELSE obs
        /\ tick' = [NoTick EXCEPT !.pc = "sent"]
        /\ UNCHANGED <<hostVars, daddr, lifeVars, codec, api, heap>>

\* "start = qi_dev->addr.pread;"
TickStart ==
    /\ tick.pc = "sent"
    /\ tick' = [tick EXCEPT !.pc = "start", !.start = daddr.pread,
                            !.seen = {WindowNow}]
    /\ UNCHANGED <<hostVars, devVars, wire, obs, sentlog, lifeVars, codec,
                   api, heap>>

\* "end = qi_dev->addr.end; if (start == end) return; len = end - start + 1;
\* if (len == 0) return;"
TickEnd ==
    /\ tick.pc = "start"
    /\ tick' = IF NothingToRead(tick.start, daddr.end) THEN NoTick
               ELSE [tick EXCEPT !.pc = "end", !.end = daddr.end,
                                 !.seen = @ \cup {WindowNow}]
    /\ UNCHANGED <<hostVars, devVars, wire, obs, sentlog, lifeVars, codec,
                   api, heap>>

\* "if ((task = get_free_task()) == NULL) return;"
TickTask ==
    LET free == get_free_task(tasks, task_start)
    IN  /\ tick.pc = "end"
        /\ tick' = IF free < NumTasks
                   THEN [tick EXCEPT !.pc = "task", !.free = free]
                   ELSE NoTick
        /\ UNCHANGED <<hostVars, devVars, wire, obs, sentlog, lifeVars,
                       codec, api, heap>>

\* "task->len = MIN(len, qi_max_tx_packet); qiprog_read(qi_dev, start,
\* task->buf, task->len); task->status = READY_SEND;"
TickRead ==
    LET len == Add32(Sub32(tick.end, tick.start), U32(1))
        tlen == TaskLen(len)
    IN  /\ tick.pc = "task"
        /\ tasks' = [tasks EXCEPT ![tick.free] =
                        [status |-> READY_SEND,
                         buf |-> drv_read_bytes(tick.start, tlen)]]
        /\ daddr' = drv_read_addr(daddr, tlen)
        /\ tick' = [tick EXCEPT !.pc = "idle"]
        /\ UNCHANGED <<hostVars, task_start, wire, obs, sentlog, lifeVars,
                       codec, api, heap>>

\* The windows the host sets while the device runs.
IrqWindows == {<<Zero32, U32(EpIn + 1)>>, <<Zero32, U32(2 * EpIn)>>}

NextIrq ==
    \/ \E accept \in BOOLEAN : TickSend(accept)
    \/ TickStart
    \/ TickEnd
    \/ TickTask
    \/ TickRead
    \/ DevSetAddress(IrqWindows)
    \/ UsbIn

SpecIrq == Init /\ [][NextIrq]_vars

\* The read handle_events issues in this step was computed from a start and
\* an end that qi_dev->addr held together when one of them was read.
ConsistentRead ==
    (tick.pc = "task" /\ tick'.pc = "idle") =>
        <<tick.start, tick.end>> \in tick.seen

\* C34: with SET_ADDRESS handled between any two steps of
\* qiprog_handle_events, every read it issues on the internal driver uses a
\* start and a length computed from one window, pread and end of the same
\* instant, and the ring keeps its order: no IDLE task is sent and no task
\* is sent twice.
C34_InterruptedTickConsistent == [][ConsistentRead /\ RingStep]_vars

(***************************************************************************)
(* The host's read accounting.                                             *)
(***************************************************************************)
\* C35: after any sequence of successful set_address and read calls, pread
\* is ahead of start by the number of bytes received over bulk-in since the
\* last set_address, the bytes delivered to the caller since then are that
\* number less the residual's length, and the residual holds the bytes
\* received and not delivered, in the order they came.
C35_ReadAccounting ==
    (pc = "idle" /\ obs.clean) =>
        /\ Sub32(haddr.pread, haddr.start) = U32(Len(obs.rxs))
        /\ obs.dl + Len(hbuf) = Len(obs.rxs)
        /\ hbuf = SubSeq(obs.rxs, obs.dl + 1, Len(obs.rxs))

\* Two reads have returned QIPROG_SUCCESS after a set_address, the second
\* served from the residual the first one left.
C35_Witness ==
    /\ pc = "idle"
    /\ obs.clean
    /\ calls = 3
    /\ call.op = "read"
    /\ ~call.sa
    /\ obs.dl > 0
    /\ obs.dl < Len(obs.rxs)

(***************************************************************************)
(* The fan-out of do_async_bulk_transfers over several calls: reads of two *)
(* packets, so that the queue depth is 2 and a failing second submission   *)
(* returns with the first transfer submitted.  Every submitted transfer    *)
(* completes, with data or, no packet being there for it, by its timeout   *)
(* of 3000 ms; every completion's callback runs, and libusb_handle_events  *)
(* does not fail.                                                          *)
(***************************************************************************)
FanLen == 2 * EpIn

FanSetAddress ==
    /\ calls = 0
    /\ set_address(Zero32, MidEnd, TRUE)

FanRead == \E nsub \in 0..2 : ReadBegin(Zero32, FanLen, TRUE, nsub)

FanCb ==
    \E i \in 1..MaxPendingCb : \E touch \in BOOLEAN : AsyncCb(i, TRUE, touch)

\* The first IN transfer times out: no packet came for it.
FanTimeout ==
    LET i == FirstOn(subq, "in")
        t == subq[i]
    IN  /\ i > 0
        /\ wire = <<>>
        /\ Len(doneq) < MaxPendingCb
        /\ subq' = Remove(subq, i)
        /\ doneq' = Append(doneq, [num |-> t.num, off |-> t.off, ep |-> t.ep,
                                   live |-> t.live, ok |-> FALSE,
                                   actual |-> 0])
        /\ UNCHANGED <<haddr, hbuf, pc, call, dst, cur, daddr, tasks,
                       task_start, wire, calls, faults, obs>>
        /\ UNCHANGED <<lifeVars, sentlog, libVars>>

NextFan ==
    \/ FanSetAddress
    \/ FanRead
    \/ Device
    \/ BusDeliver
    \/ FanTimeout
    \/ FanCb
    \/ AsyncFinish

SpecFan ==
    /\ Init
    /\ [][NextFan]_vars
    /\ WF_vars(Device)
    /\ SF_vars(qiprog_handle_events(TRUE))
    /\ WF_vars(BusDeliver)
    /\ WF_vars(FanTimeout)
    /\ WF_vars(FanCb)
    /\ WF_vars(AsyncFinish)

\* active_transfers is between 0 and the queue depth.
ActiveInRange ==
    pc = "async" =>
        cur.active_transfers[1] = 0 /\ cur.active_transfers[2] <= cur.depth

\* C36: the fan-out terminates.  With every submitted transfer completing
\* and its callback running, and event polling not failing,
\* active_transfers reaches 0 and do_async_bulk_transfers leaves its loop,
\* and active_transfers never goes below 0.
C36_FanOutTerminates ==
    /\ [](ActiveInRange)
    /\ (pc = "async") ~> (pc # "async")

(***************************************************************************)
(* Host driver (usb_master.c): the bulk OUT transfers of write, for        *)
(* devices whose IN and OUT endpoints have any sizes.                      *)
(***************************************************************************)
\* wMaxPacketSize of the two bulk endpoints, and the lengths written.
EpSizes == 1..4
WriteNs == 0..8

\* new_usb_prog: the private state of a device found on the bus.
new_usb_prog(ep_in, ep_out) ==
    /\ heap.devs = 0
    /\ heap' = [heap EXCEPT !.devs = 1, !.ep_size_in = ep_in,
                            !.ep_size_out = ep_out]
    /\ UNCHANGED <<hostVars, devVars, wire, obs, sentlog, lifeVars, codec,
                   api, tick>>

\* The lengths of the transfers write submits on endpoint 0x01 for n bytes:
\* do_async_bulk_transfers(.., 0x01, priv->ep_size_in, src, range) with
\* range = (n / priv->ep_size_in) * priv->ep_size_in, then the leftover
\* libusb_bulk_transfer of left = n % priv->ep_size_in bytes.
WritePackets(n, ep_size_in) ==
    LET total == n \div ep_size_in
        left == n % ep_size_in
    IN  [i \in 1..total |-> ep_size_in]
            \o (IF left # 0 THEN <<left>> ELSE <<>>)

\* write(dev, where, src, n) with the window set and every transfer going
\* through.
WriteOut(n) ==
    /\ heap.devs = 1
    /\ calls < MaxCalls
    /\ calls' = calls + 1
    /\ api' = [NoApi EXCEPT !.seq = calls + 1, !.op = "write", !.arg = n,
                            !.ret = QIPROG_SUCCESS,
                            !.out = WritePackets(n, heap.ep_size_in)]
    /\ UNCHANGED <<haddr, hbuf, pc, call, dst, cur, subq, doneq, faults,
                   devVars, wire, obs, sentlog, lifeVars, codec, heap, tick>>

NextEp ==
    \/ \E ep_in, ep_out \in EpSizes : new_usb_prog(ep_in, ep_out)
    \/ \E n \in WriteNs : WriteOut(n)

SpecEp == Init /\ [][NextEp]_vars

\* C37: every bulk OUT packet write submits is at most ep_size_out long:
\* the full packets are ep_size_out bytes and the tail n mod ep_size_out,
\* whatever the sizes of the IN and OUT endpoints.
C37_OutPacketsFitEndpoint ==
    api.op = "write" =>
        /\ \A i \in 1..Len(api.out) : api.out[i] <= heap.ep_size_out
        /\ api.out = [i \in 1..(api.arg \div heap.ep_size_out) |->
                         heap.ep_size_out]
                       \o (IF api.arg % heap.ep_size_out # 0
                           THEN <<api.arg % heap.ep_size_out>> ELSE <<>>)

(***************************************************************************)
(* Control requests before the firmware has selected a device.             *)
(***************************************************************************)
\* The requests whose case calls a qiprog_* function of the core with
\* qi_dev.
CoreRequests ==
    {"QIPROG_GET_CAPABILITIES", "QIPROG_SET_BUS", "QIPROG_READ_DEVICE_ID"}
        \cup {ReadRequest(N) : N \in Widths}
        \cup {WriteRequest(N) : N \in Widths}

\* What "qi_dev->drv->set_address(qi_dev, start, end)" can do with a NULL
\* qi_dev: the firmware traps, or the call through whatever the read at
\* address 0 yields comes back with some value.
NullCallOutcomes == {"trap", QIPROG_SUCCESS, QIPROG_ERR}

\* qiprog_handle_control_request while qi_dev is NULL.  The core's functions
\* return QIPROG_ERR_ARG from QIPROG_RETURN_ON_BAD_DEV; the SET_ADDRESS case
\* goes to the driver through qi_dev itself.
ControlBeforeDevice(bRequest, ub) ==
    LET derefs == bRequest = "QIPROG_SET_ADDRESS"
        ret == IF derefs THEN (IF ub = "trap" THEN QIPROG_ERR ELSE ub)
               ELSE IF bRequest \in CoreRequests THEN QIPROG_ERR_ARG
               ELSE Unhandled.ret
    IN  /\ ~fw.halted
        /\ qi_dev = NULL
        /\ pc = "idle"
        /\ calls < MaxCalls
        /\ derefs \/ ub = QIPROG_ERR
        /\ calls' = calls + 1
        /\ fw' = IF derefs
                 THEN [halted |-> ub = "trap", nullderef |-> TRUE]
                 ELSE fw
        /\ ctl' = [NoCtl EXCEPT !.seq = calls + 1, !.op = "raw",
                                !.bRequest = bRequest, !.ret = ret,
                                !.hret = IF ret = QIPROG_SUCCESS
                                         THEN QIPROG_SUCCESS ELSE QIPROG_ERR]
        /\ UNCHANGED <<libVars, haddr, hbuf, pc, call, dst, cur, subq, doneq,
                       faults, obs, devVars, wire, sentlog, qi_bulk_buf,
                       qi_dev, drv>>

NextNull ==
    \/ Firmware
    \/ \E b \in CoreRequests \cup NotHandled \cup {"QIPROG_SET_ADDRESS"} :
       \E ub \in NullCallOutcomes : ControlBeforeDevice(b, ub)
    \/ DevSetAddress(DevWindows)
    \/ DevIo

SpecNull == InitDev /\ [][NextNull]_vars

\* C38: while no device has been selected, every control request, whatever
\* its bRequest, SET_ADDRESS included, is answered with a status other than
\* QIPROG_SUCCESS, and the null device is not dereferenced.
C38_NullDeviceRequestsRejected ==
    (qi_dev = NULL /\ ctl.seq > 0) =>
        (ctl.ret # QIPROG_SUCCESS /\ ~fw.nullderef)

(***************************************************************************)
(* The counter of do_async_bulk_transfers.                                 *)
(***************************************************************************)
\* The transfers of the running call that are submitted and whose callback
\* has not run: on the bus, or completed and waiting for async_cb.
Outstanding ==
    Cardinality({i \in 1..Len(subq) : subq[i].live})
        + Cardinality({i \in 1..Len(doneq) : doneq[i].live})

\* The completed transfers of the running call in the queue q.
LiveIn(q) == Cardinality({i \in 1..Len(q) : q[i].live})

\* In this step a callback of the running call ran: it resubmitted its
\* transfer and left the counter alone, or it decremented the counter by
\* one.
CallbackCounts ==
    (pc = "async" /\ pc' = "async" /\ LiveIn(doneq') < LiveIn(doneq)) =>
        \/ cur'.active_transfers = cur.active_transfers
              /\ Len(subq') = Len(subq) + 1
        \/ cur'.active_transfers = Sub32(cur.active_transfers, U32(1))
              /\ subq' = subq

\* C39: while do_async_bulk_transfers polls for events, active_transfers is
\* the number of its transfers submitted and not yet completed, which is
\* never above the queue depth, and every callback either resubmits its
\* transfer, the counter unchanged, or decrements the counter by one.
C39_ActiveCountsOutstanding ==
    /\ [](pc = "async" =>
            /\ cur.active_transfers = U32(Outstanding)
            /\ Outstanding <= cur.depth)
    /\ [][CallbackCounts]_vars

(***************************************************************************)
(* The shape of the task ring.                                             *)
(***************************************************************************)
\* The first k tasks from the head on are READY_SEND with a length of 1 to
\* qi_max_tx_packet, and the others are IDLE with len 0.
RingHolds(k) ==
    \A j \in 0..(NumTasks - 1) :
        LET t == tasks[(task_start + j) % NumTasks]
        IN  IF j < k
            THEN /\ t.status = READY_SEND
                 /\ Len(t.buf) >= 1
                 /\ Len(t.buf) <= qi_max_tx_packet
            ELSE t.status = IDLE /\ Len(t.buf) = 0

\* C40: in every state the READY_SEND tasks are the ring indices task_start,
\* task_start + 1, .., task_start + k - 1 (mod 4) for some k in 0..4, each
\* with 1 <= len <= max_tx_packet, all other tasks are IDLE with len 0, and
\* get_free_task returns the slot right after the last READY_SEND task (no
\* task when k is 4).
C40_ReadyTasksContiguous ==
    \E k \in 0..NumTasks :
        /\ RingHolds(k)
        /\ get_free_task(tasks, task_start) =
               IF k = NumTasks THEN NumTasks
               ELSE (task_start + k) % NumTasks

\* The READY_SEND tasks wrap around the end of the array: the head is the
\* last slot, and slot 0 is filled behind it.
C40_Witness ==
    /\ task_start = NumTasks - 1
    /\ tasks[NumTasks - 1].status = READY_SEND
    /\ tasks[0].status = READY_SEND
    /\ tasks[1].status = IDLE

====
